---- MODULE Spec2Model ----
(***************************************************************************)
(* Cloud-Cost-Optimizer: the cost endpoint (server/api/cost.ts), the chat  *)
(* endpoint that consumes it, and the analytics they run on the daily cost *)
(* series.                                                                 *)
(*                                                                         *)
(* Money is held in hundredths of a currency unit (Scale), so that         *)
(* toFixed(2) and the comparisons of the source are exact.  A JavaScript   *)
(* number is a record [t, v] with t = "num" (value v, in hundredths) or    *)
(* t = "nan".  A JavaScript string is a sequence of one-character strings. *)
(***************************************************************************)
EXTENDS Integers, Sequences, FiniteSets, TLC

VARIABLES
    rows,                 \* costResponse.data.properties.rows of the billing API
    dailyCosts,           \* what getDailyCostData returns
    costSpikes,           \* what detectCostSpikes returns
    percentageThreshold,  \* detectCostSpikes' second argument
    absoluteThreshold,    \* detectCostSpikes' third argument
    stage,                \* position of the analytics run
    costPc,               \* the await the cost endpoint's handler is at
    local,                \* the results the cost handler holds so far
    failedStep,           \* the call of the cost handler that rejected, "" if none
    costResult,           \* what the cost handler returned, once it has
    chatPc,               \* the await the chat endpoint's handler is at
    context,              \* the report context the chat handler assembled
    narrativeCalls,       \* requests sent to the narrative generator
    chatResult,           \* what the chat handler returned, once it has
    seasonality,          \* what detectSeasonality returns
    eventFeed,            \* the value array of the activity log's answer
    rootCauses,           \* what analyzeRootCause returns
    serviceCosts,         \* compareWithBenchmarks' first argument
    benchmarkTable,       \* compareWithBenchmarks' second argument
    benchmarkComparisons, \* what compareWithBenchmarks returns
    periodText,           \* getTimeRange's argument
    today,                \* the day new Date() falls on, in days since 1970-01-01
    timeRange,            \* what getTimeRange returns, or that it threw
    multiCloudBenchmarks, \* what fetchMultiCloudBenchmarks returned, once it has
    eventQueries,         \* the callbacks of the map over the spikes, one a spike
    rootCauseList,        \* rootCauseAnalysis.filter(Boolean) of the cost handler
    messages,             \* the array messages.value refers to
    chatHistory,          \* chatHistory.value: items with a summary and messages
    localStorage,         \* the item "chatHistory" of the browser's storage
    loading,              \* loading.value
    requests,             \* the chat requests awaiting their response
    sent                  \* the number of messages sent so far

aggVars == <<rows, dailyCosts, costSpikes, percentageThreshold, absoluteThreshold>>

costVars == <<costPc, local, failedStep, costResult>>

chatVars == <<chatPc, context, narrativeCalls, chatResult>>

fetchVars == <<eventQueries, rootCauseList>>

uiVars == <<messages, chatHistory, localStorage, loading, requests, sent>>

unitVars ==
    <<seasonality, eventFeed, rootCauses, serviceCosts, benchmarkTable,
      benchmarkComparisons, periodText, today, timeRange, multiCloudBenchmarks,
      fetchVars, uiVars>>

vars == <<aggVars, stage, costVars, chatVars, unitVars>>

----------------------------------------------------------------------------
(* Bounds and input domains *)

MaxRows == 3

Scale == 100

Units(n) == n * Scale

\* JavaScript numbers
NaN == [t |-> "nan", v |-> 0]
Num(v) == [t |-> "num", v |-> v]
IsNum(x) == x.t = "num"

\* raw JSON values of a cost field: a number, a string or null
RawNum(v) == [t |-> "number", v |-> v, s |-> << >>]
RawStr(s) == [t |-> "string", v |-> 0, s |-> s]

RawCosts ==
    { RawNum(0), RawNum(Units(100)), RawNum(Units(200)),
      RawStr(<<"$", "5", "0">>), RawStr(<<"n", "/", "a">>) }

DateKeys == {20250106, 20250107, 20250108}

ServiceNames == {"Storage", "Virtual Network"}

Rows == { <<c, k, s>> : c \in RawCosts, k \in DateKeys, s \in ServiceNames }

SeqsUpTo(S, n) == UNION { [1..m -> S] : m \in 0..n }

\* an optional value: absent, or present
None == << >>
Some(x) == <<x>>
OrElse(opt, default) == IF opt = None THEN default ELSE opt[1]

\* the thresholds the source uses: the call of getCostResponseWithBudget
\* and the defaults of detectCostSpikes
ThresholdPairs == { <<5, Units(50)>>, <<10, Units(500)>> }

----------------------------------------------------------------------------
(* String(x) and parseFloat *)

Digits == <<"0", "1", "2", "3", "4", "5", "6", "7", "8", "9">>

IsDigit(c) == \E i \in 1..Len(Digits) : Digits[i] = c

DigitVal(c) == (CHOOSE i \in 1..Len(Digits) : Digits[i] = c) - 1

UpperLetters ==
    <<"A", "B", "C", "D", "E", "F", "G", "H", "I", "J", "K", "L", "M",
      "N", "O", "P", "Q", "R", "S", "T", "U", "V", "W", "X", "Y", "Z">>

LowerLetters ==
    <<"a", "b", "c", "d", "e", "f", "g", "h", "i", "j", "k", "l", "m",
      "n", "o", "p", "q", "r", "s", "t", "u", "v", "w", "x", "y", "z">>

LowerChar(c) ==
    IF \E i \in 1..Len(UpperLetters) : UpperLetters[i] = c
    THEN LowerLetters[CHOOSE i \in 1..Len(UpperLetters) : UpperLetters[i] = c]
    ELSE c

\* String.prototype.toLowerCase
toLowerCase(s) == [i \in 1..Len(s) |-> LowerChar(s[i])]

\* String.prototype.includes
Includes(s, sub) ==
    \E i \in 1..(Len(s) - Len(sub) + 1) : SubSeq(s, i, i + Len(sub) - 1) = sub

RECURSIVE NatToChars(_)
NatToChars(n) ==
    IF n < 10 THEN <<Digits[n + 1]>>
    ELSE NatToChars(n \div 10) \o <<Digits[(n % 10) + 1]>>

\* Number.prototype.toString of a value held in hundredths
NumToChars(v) ==
    LET mag  == IF v < 0 THEN 0 - v ELSE v
        frac == mag % Scale
        fracChars ==
            IF frac = 0 THEN << >>
            ELSE IF frac % 10 = 0 THEN <<".", Digits[(frac \div 10) + 1]>>
            ELSE <<".", Digits[(frac \div 10) + 1], Digits[(frac % 10) + 1]>>
    IN (IF v < 0 THEN <<"-">> ELSE << >>) \o NatToChars(mag \div Scale) \o fracChars

\* String(row[0])
ToStr(raw) ==
    IF raw.t = "number" THEN NumToChars(raw.v)
    ELSE IF raw.t = "string" THEN raw.s
    ELSE <<"n", "u", "l", "l">>

RECURSIVE DigitRunEnd(_, _)
DigitRunEnd(s, i) ==
    IF i <= Len(s) /\ IsDigit(s[i]) THEN DigitRunEnd(s, i + 1) ELSE i

RECURSIVE DigitsValue(_, _, _)
DigitsValue(s, i, j) ==
    IF j <= i THEN 0 ELSE DigitsValue(s, i, j - 1) * 10 + DigitVal(s[j - 1])

RECURSIVE SkipSpaces(_, _)
SkipSpaces(s, i) ==
    IF i <= Len(s) /\ s[i] = " " THEN SkipSpaces(s, i + 1) ELSE i

\* parseFloat: the longest decimal literal at the start of the string
\* (after white space), NaN when there is none
parseFloat(s) ==
    LET i0 == SkipSpaces(s, 1)
        signed == i0 <= Len(s) /\ s[i0] \in {"-", "+"}
        neg == i0 <= Len(s) /\ s[i0] = "-"
        i1 == IF signed THEN i0 + 1 ELSE i0
        i2 == DigitRunEnd(s, i1)
        hasDot == i2 <= Len(s) /\ s[i2] = "."
        i3 == IF hasDot THEN DigitRunEnd(s, i2 + 1) ELSE i2
        intDigits == i2 - i1
        fracDigits == IF hasDot THEN i3 - (i2 + 1) ELSE 0
        frac ==
            IF fracDigits = 0 THEN 0
            ELSE IF fracDigits = 1 THEN DigitVal(s[i2 + 1]) * 10
            ELSE DigitVal(s[i2 + 1]) * 10 + DigitVal(s[i2 + 2])
        mag == DigitsValue(s, i1, i2) * Scale + frac
    IN IF intDigits + fracDigits = 0 THEN NaN
       ELSE Num(IF neg THEN 0 - mag ELSE mag)

\* a + b on JavaScript numbers
Add(a, b) == IF IsNum(a) /\ IsNum(b) THEN Num(a.v + b.v) ELSE NaN

\* cost.replace(/[^\d.-]/g, '')
IsCostChar(c) == IsDigit(c) \/ c \in {".", "-"}

\* parseCost of the chat endpoint.  A number is returned as it is; a string
\* is stripped to digits, dots and dashes and parsed, NaN and 0 giving 0;
\* any other value (null) has no replace method and throws a TypeError
parseCostThrows(raw) == raw.t \notin {"number", "string"}

parseCost(raw) ==
    IF raw.t = "number" THEN Num(raw.v)
    ELSE LET parsed == parseFloat(SelectSeq(raw.s, IsCostChar))
         IN IF IsNum(parsed) THEN parsed ELSE Num(0)

----------------------------------------------------------------------------
(* getDailyCostData: group the rows by date *)

NumDigits(k) == Len(NatToChars(k))

\* String(row[1]).replace(/(\d{4})(\d{2})(\d{2})/, "$1-$2-$3"): an
\* eight-digit key becomes YYYY-MM-DD, a shorter one does not match and is
\* left as it is, a longer one keeps its further digits after the day; raw
\* identifies the string
DateStr(k) ==
    IF NumDigits(k) = 8
    THEN [iso |-> TRUE, y |-> k \div 10000, m |-> (k \div 100) % 100, d |-> k % 100, raw |-> k]
    ELSE [iso |-> FALSE, y |-> 0, m |-> 0, d |-> 0, raw |-> k]

HasDate(list, dateStr) == \E i \in 1..Len(list) : list[i].date = dateStr

\* AddRow with the total assigned instead of accumulated
AddRowAssigning(list, row) ==
    LET dateStr == DateStr(row[2])
        cost == parseFloat(ToStr(row[1]))
        withDate ==
            IF HasDate(list, dateStr) THEN list
            ELSE Append(list, [date |-> dateStr, cost |-> Num(0), serviceBreakdown |-> << >>])
    IN [i \in 1..Len(withDate) |->
           IF withDate[i].date = dateStr
           THEN [withDate[i] EXCEPT
                    !.cost = cost,
                    !.serviceBreakdown = Append(@, [service |-> row[3], cost |-> cost])]
           ELSE withDate[i]]

\* AddRow with a row of a date already seen replacing that date's entries
AddRowReplacing(list, row) ==
    LET dateStr == DateStr(row[2])
        cost == parseFloat(ToStr(row[1]))
        withDate ==
            IF HasDate(list, dateStr) THEN list
            ELSE Append(list, [date |-> dateStr, cost |-> Num(0), serviceBreakdown |-> << >>])
    IN [i \in 1..Len(withDate) |->
           IF withDate[i].date = dateStr
           THEN [withDate[i] EXCEPT
                    !.cost = Add(@, cost),
                    !.serviceBreakdown = <<[service |-> row[3], cost |-> cost]>>]
           ELSE withDate[i]]

\* the body of the forEach callback, on the object's entries in insertion order
AddRow(list, row) ==
    LET dateStr == DateStr(row[2])
        service == row[3]
        cost == parseFloat(ToStr(row[1]))
        withDate ==
            IF HasDate(list, dateStr) THEN list
            ELSE Append(list, [date |-> dateStr, cost |-> Num(0), serviceBreakdown |-> << >>])
    IN [i \in 1..Len(withDate) |->
           IF withDate[i].date = dateStr
           THEN [withDate[i] EXCEPT
                    !.cost = Add(@, cost),
                    !.serviceBreakdown = Append(@, [service |-> service, cost |-> cost])]
           ELSE withDate[i]]

RECURSIVE GroupRows(_, _)
GroupRows(list, rs) ==
    IF rs = << >> THEN list ELSE GroupRows(AddRow(list, Head(rs)), Tail(rs))

\* Object.values: the keys that are array indices (a date string that is
\* all digits) come first in ascending numeric order, the other keys
\* follow in insertion order
RECURSIVE InsertByKey(_, _)
InsertByKey(sorted, rec) ==
    IF sorted = << >> THEN <<rec>>
    ELSE IF rec.date.raw < Head(sorted).date.raw THEN <<rec>> \o sorted
    ELSE <<Head(sorted)>> \o InsertByKey(Tail(sorted), rec)

RECURSIVE SortByKey(_)
SortByKey(list) ==
    IF list = << >> THEN << >> ELSE InsertByKey(SortByKey(Tail(list)), Head(list))

IsIndexKey(rec) == NumDigits(rec.date.raw) < 8

ObjectValues(list) ==
    SortByKey(SelectSeq(list, IsIndexKey))
      \o SelectSeq(list, LAMBDA rec : ~IsIndexKey(rec))

getDailyCostData(rs) == ObjectValues(GroupRows(<< >>, rs))

----------------------------------------------------------------------------
(* detectCostSpikes *)

\* OrOne as the larger of the previous cost and one unit
OrOneMax(prevCost) == IF IsNum(prevCost) /\ prevCost.v > Scale THEN prevCost.v ELSE Scale

\* prevCost || 1
OrOne(prevCost) == IF IsNum(prevCost) /\ prevCost.v # 0 THEN prevCost.v ELSE Scale

\* floor(n / d + 1/2), for d > 0: the rounding of toFixed
RoundDiv(n, d) == (2 * n + d) \div (2 * d)

\* (x / d * 100).toFixed(2) in hundredths of a percent, for d > 0: the
\* quotient taken two decimals at a time
PercentToFixed(x, d) ==
    LET r1 == x % d
        r2 == (r1 * 100) % d
    IN (x \div d) * 10000 + ((r1 * 100) \div d) * 100 + RoundDiv(r2 * 100, d)

\* RatioAtLeast with the comparison turned round
RatioAtMost(x, d, t) == IF d > 0 THEN x <= t * d ELSE x >= t * d

\* x / d >= t, for integers x, t and d # 0
RatioAtLeast(x, d, t) == IF d > 0 THEN x >= t * d ELSE x <= t * d

\* IsSpike with both thresholds required
IsSpikeBoth(prevCost, currentCost, pT, aT) ==
    /\ IsNum(prevCost)
    /\ IsNum(currentCost)
    /\ RatioAtLeast((currentCost.v - prevCost.v) * 100, OrOne(prevCost), pT)
    /\ currentCost.v - prevCost.v >= aT

\* the condition of the if statement of the loop body
IsSpike(prevCost, currentCost, pT, aT) ==
    /\ IsNum(prevCost)
    /\ IsNum(currentCost)
    /\ \/ RatioAtLeast((currentCost.v - prevCost.v) * 100, OrOne(prevCost), pT)
       \/ currentCost.v - prevCost.v >= aT

\* cost > 0 of the filter
IsPositive(entry) == IsNum(entry.cost) /\ entry.cost.v > 0

\* the descriptor pushed for day i: its date, the percentage to two
\* decimals, both costs and the services with a positive cost
SpikeOf(dc, i) ==
    LET prevCost == dc[i - 1].cost
        currentCost == dc[i].cost
        d == OrOne(prevCost)
    IN [date |-> dc[i].date,
        increasePercentage |->
            IF d > 0 THEN PercentToFixed(currentCost.v - prevCost.v, d)
            ELSE PercentToFixed(prevCost.v - currentCost.v, 0 - d),
        prevCost |-> prevCost,
        currentCost |-> currentCost,
        services |-> SelectSeq(dc[i].serviceBreakdown, IsPositive)]

RECURSIVE SpikeLoop(_, _, _, _, _)
SpikeLoop(dc, i, pT, aT, spikes) ==
    IF i > Len(dc) THEN spikes
    ELSE SpikeLoop(dc, i + 1, pT, aT,
                   IF IsSpike(dc[i - 1].cost, dc[i].cost, pT, aT)
                   THEN Append(spikes, SpikeOf(dc, i))
                   ELSE spikes)

\* detectCostSpikes with the first day compared to a day of no cost
detectCostSpikesFromFirst(dc, pT, aT) ==
    IF dc = << >> THEN << >>
    ELSE SpikeLoop(<<[dc[1] EXCEPT !.cost = Num(0)]>> \o dc, 2, pT, aT, << >>)

detectCostSpikes(dc, pT, aT) == SpikeLoop(dc, 2, pT, aT, << >>)

----------------------------------------------------------------------------
(* detectSeasonality *)

\* days from 1970-01-01 to the civil date y-m-d
DaysFromCivil(y, m, d) ==
    LET yy == IF m <= 2 THEN y - 1 ELSE y
        era == yy \div 400
        yoe == yy - era * 400
        mp == (m + 9) % 12
        doy == (153 * mp + 2) \div 5 + d - 1
        doe == yoe * 365 + yoe \div 4 - yoe \div 100 + doy
    IN era * 146097 + doe - 719468

\* the property key "NaN"
NaNKey == 0 - 1

\* new Date(day.date).getDay(), 0 = Sunday, on a server whose zone is UTC;
\* a string that is not YYYY-MM-DD gives an Invalid Date, whose getDay()
\* and getDate() are NaN
DayOfWeek(date) ==
    IF date.iso THEN (DaysFromCivil(date.y, date.m, date.d) + 4) % 7 ELSE NaNKey

\* new Date(day.date).getDate()
DayOfMonth(date) == IF date.iso THEN date.d ELSE NaNKey

\* the bucket of a day in the weekly or the monthly pass
KeyOf(type, date) == IF type = "weekly" THEN DayOfWeek(date) ELSE DayOfMonth(date)

\* (bucket[key] || 0) + day.cost over the first n days, for one key
RECURSIVE BucketCost(_, _, _, _)
BucketCost(dc, type, key, n) ==
    IF n = 0 THEN NaN
    ELSE LET before == BucketCost(dc, type, key, n - 1)
         IN IF KeyOf(type, dc[n].date) = key
            THEN Add(IF IsNum(before) THEN before ELSE Num(0), dc[n].cost)
            ELSE before

HasKey(dc, type, key) == \E i \in 1..Len(dc) : KeyOf(type, dc[i].date) = key

\* Object.entries of a bucket object: the keys that are array indices
\* come in ascending order, the key "NaN" after them
BucketKeys(dc, type, lo, hi) ==
    SelectSeq([i \in 1..(hi - lo + 1) |-> lo + i - 1],
              LAMBDA key : HasKey(dc, type, key))
      \o (IF HasKey(dc, type, NaNKey) THEN <<NaNKey>> ELSE << >>)

RECURSIVE SumBuckets(_, _, _)
SumBuckets(dc, type, keys) ==
    IF keys = << >> THEN Num(0)
    ELSE Add(SumBuckets(dc, type, SubSeq(keys, 1, Len(keys) - 1)),
             BucketCost(dc, type, keys[Len(keys)], Len(dc)))

\* cost > (total / divisor) * 1.2
AboveAverage(cost, total, divisor) ==
    IsNum(cost) /\ IsNum(total) /\ cost.v * divisor * 10 > total.v * 12

\* PatternsOf with the average taken over the buckets that are present
PatternsOfPresentBuckets(dc, type, lo, hi, divisor) ==
    LET keys == BucketKeys(dc, type, lo, hi)
        total == SumBuckets(dc, type, keys)
        above == SelectSeq(keys, LAMBDA key :
                     AboveAverage(BucketCost(dc, type, key, Len(dc)), total, Len(keys)))
    IN [k \in 1..Len(above) |->
           LET cost == BucketCost(dc, type, above[k], Len(dc))
           IN [type |-> type,
               bucket |-> above[k],
               impact |-> IF total.v > 0
                          THEN PercentToFixed(cost.v * Len(keys) - total.v, total.v)
                          ELSE 0]]

\* the patterns of one pass: one per bucket above 1.2 times the average,
\* with the percentage above the average to two decimals
PatternsOf(dc, type, lo, hi, divisor) ==
    LET keys == BucketKeys(dc, type, lo, hi)
        total == SumBuckets(dc, type, keys)
        above == SelectSeq(keys, LAMBDA key :
                     AboveAverage(BucketCost(dc, type, key, Len(dc)), total, divisor))
    IN [k \in 1..Len(above) |->
           LET cost == BucketCost(dc, type, above[k], Len(dc))
           IN [type |-> type,
               bucket |-> above[k],
               impact |-> IF total.v > 0
                          THEN PercentToFixed(cost.v * divisor - total.v, total.v)
                          ELSE 0]]

detectSeasonality(dc) ==
    IF Len(dc) = 0 THEN << >>
    ELSE PatternsOf(dc, "weekly", 0, 6, 7) \o PatternsOf(dc, "monthly", 1, 31, 31)

----------------------------------------------------------------------------
(* What the collaborators of the cost endpoint can answer *)

MaxFeedRows == 2

\* the rows of the billing answer, one of them with a date key of nine digits
FeedRows ==
    { <<c, k, "Storage">> :
        c \in {RawNum(Units(100)), RawNum(Units(200)), RawStr(<<"n", "/", "a">>)},
        k \in DateKeys }
      \cup { <<RawNum(Units(200)), 202501071, "Storage">> }

CostFeeds == SeqsUpTo(FeedRows, MaxFeedRows)

\* the properties of the budget resource: amount, currentSpend.amount and
\* forecastSpend.amount
Budgets ==
    { [amount |-> a, currentSpend |-> c, forecastSpend |-> f] :
        a \in {0, Units(1000)},
        c \in {Units(500), Units(950)},
        f \in {Units(1000), Units(1200)} }

UnusedResourcesFeeds ==
    { [unusedPublicIPs |-> <<"ip-1">>, unusedNSGs |-> << >>, unusedLoadBalancers |-> << >>] }

AdvisorFeeds == { << >> }

MetricsFeeds == { [metrics |-> << >>, recommendations |-> << >>] }

VNetFeeds ==
    { << >>,
      <<[name |-> "vnet-a", peerings |-> << >>, gateways |-> <<"gw-a">>, subnets |-> <<"default">>]>> }

\* the network watchers with the bytes of their two latest flow-log
\* entries, or no logs when the flow-log query of the watcher fails
WatcherFeeds ==
    { << >>,
      <<[name |-> "watcher-a", logs |-> Some(<<150, 100>>)]>>,
      <<[name |-> "watcher-a", logs |-> None]>> }

OpWrite == <<"v", "m", "/", "W", "r", "i", "t", "e">>

OpDelete == <<"v", "m", "/", "D", "e", "l", "e", "t", "e">>

OpCreate == <<"C", "r", "e", "a", "t", "e", "V", "m">>

OpUpdate == <<"v", "m", "/", "U", "p", "d", "a", "t", "e">>

\* the spelling of the activity log
OpLowerWrite == <<"v", "m", "/", "w", "r", "i", "t", "e">>

EventFeeds ==
    { << >>,
      <<[operationName |-> OpWrite, resourceName |-> "vm-1"],
        [operationName |-> OpDelete, resourceName |-> "vm-2"]>> }

----------------------------------------------------------------------------
(* The industry benchmarks *)

\* the figures of a benchmark are held in thousandths of a unit
MilliScale == 1000

ToMilli(v) == v * (MilliScale \div Scale)

Benchmark(service, average, unitType, p50, p90) ==
    [service |-> service, averageCostPerUnit |-> average, unitType |-> unitType,
     percentile50 |-> p50, percentile90 |-> p90]

\* the keys of fallbackData
FallbackServices == {"Virtual Network", "Azure App Service", "Storage"}

fallbackData(name) ==
    CASE name = "Virtual Network" -> Benchmark(name, 35500, "GB", 30200, 42750)
      [] name = "Azure App Service" -> Benchmark(name, 22800, "vCPU", 19500, 27400)
      [] name = "Storage" -> Benchmark(name, 23, "GB", 18, 28)

\* getFallbackBenchmarks with the requested names left out of account
getFallbackBenchmarksWhole(serviceNames) ==
    <<fallbackData("Virtual Network"), fallbackData("Azure App Service"),
      fallbackData("Storage")>>

getFallbackBenchmarks(serviceNames) ==
    LET known == SelectSeq(serviceNames, LAMBDA name : name \in FallbackServices)
    IN [i \in 1..Len(known) |-> fallbackData(known[i])]

\* [...new Set(serviceBreakdown.map(s => s.service))]: the names in the
\* order of their first entry
RECURSIVE UniqueNames(_, _)
UniqueNames(seen, entries) ==
    IF entries = << >> THEN seen
    ELSE UniqueNames(IF \E i \in 1..Len(seen) : seen[i] = Head(entries).service
                     THEN seen
                     ELSE Append(seen, Head(entries).service),
                     Tail(entries))

servicesToCompare(serviceBreakdown) == UniqueNames(<< >>, serviceBreakdown)

\* benchmarks.find(b => b.service === service.service): the index of the
\* first entry of that name, 0 when there is none
FindBenchmark(table, name) ==
    IF \E i \in 1..Len(table) : table[i].service = name
    THEN CHOOSE i \in 1..Len(table) :
             /\ table[i].service = name
             /\ \A j \in 1..(i - 1) : table[j].service # name
    ELSE 0

\* ((cost - average) / average) * 100 as the exact quotient n / d times
\* 100, for an average > 0
Variance(cost, benchmark) ==
    IF IsNum(cost)
    THEN [t |-> "num", n |-> ToMilli(cost.v) - benchmark.averageCostPerUnit,
          d |-> benchmark.averageCostPerUnit]
    ELSE [t |-> "nan", n |-> 0, d |-> 1]

\* SeverityOf with both thresholds inclusive
SeverityOfInclusive(variance) ==
    IF variance.t = "num" /\ variance.n * 100 >= 20 * variance.d THEN "high"
    ELSE IF variance.t = "num" /\ variance.n * 100 >= 10 * variance.d THEN "medium"
    ELSE "low"

\* variance > 20 ? 'high' : variance > 10 ? 'medium' : 'low'
SeverityOf(variance) ==
    IF variance.t = "num" /\ variance.n * 100 > 20 * variance.d THEN "high"
    ELSE IF variance.t = "num" /\ variance.n * 100 > 10 * variance.d THEN "medium"
    ELSE "low"

\* the object returned for a client entry and its benchmark
Comparison(entry, benchmark) ==
    [service |-> entry.service,
     clientCost |-> entry.cost,
     industryAverage |-> benchmark.averageCostPerUnit,
     variancePercentage |-> Variance(entry.cost, benchmark),
     potentialSavings |->
         IF IsNum(entry.cost) THEN Num(ToMilli(entry.cost.v) - benchmark.percentile50)
         ELSE NaN,
     severity |-> SeverityOf(Variance(entry.cost, benchmark))]

\* compareWithBenchmarks, for a table that is an array
compareWithBenchmarks(clientData, table) ==
    LET matched == SelectSeq(clientData,
                             LAMBDA entry : FindBenchmark(table, entry.service) # 0)
    IN [k \in 1..Len(matched) |->
           Comparison(matched[k], table[FindBenchmark(table, matched[k].service)])]

\* what the benchmarking service answers when it has a table
ApiBenchmarks ==
    <<Benchmark("Functions", 4000, "Transaction", 3500, 6000),
      Benchmark("Virtual Network", 40000, "GB", 38000, 45000)>>

\* figures Math.random() can give a service: an azureCost below 1000, an
\* awsCost below 800 and a gcpCost below 900
RandomFigures ==
    { [azureCost |-> 123, awsCost |-> 98, gcpCost |-> 105],
      [azureCost |-> 900, awsCost |-> 700, gcpCost |-> 800] }

\* what fetchMultiCloudBenchmarks can return for the names: its map draws
\* three random figures a service and never throws, so that its catch
\* block and the table of getFallbackMultiCloudBenchmarks are never used
fetchMultiCloudBenchmarks(serviceNames) ==
    { [i \in 1..Len(serviceNames) |->
          [service |-> serviceNames[i], azureCost |-> figures[i].azureCost,
           awsCost |-> figures[i].awsCost, gcpCost |-> figures[i].gcpCost,
           unitType |-> "vCPU"]] :
        figures \in [1..Len(serviceNames) -> RandomFigures] }

----------------------------------------------------------------------------
(* getTimeRange and extractTimePeriod *)

\* the civil date of a day number (days since 1970-01-01)
CivilFromDays(z) ==
    LET zz == z + 719468
        era == zz \div 146097
        doe == zz - era * 146097
        yoe == (doe - doe \div 1460 + doe \div 36524 - doe \div 146096) \div 365
        doy == doe - (365 * yoe + yoe \div 4 - yoe \div 100)
        mp == (5 * doy + 2) \div 153
        d == doy - (153 * mp + 2) \div 5 + 1
        m == IF mp < 10 THEN mp + 3 ELSE mp - 9
    IN [y |-> yoe + era * 400 + (IF m <= 2 THEN 1 ELSE 0), m |-> m, d |-> d]

\* the day number of new Date(year, month, 1) for a month index of any
\* sign, on a server whose zone is UTC
MonthStart(year, month) ==
    DaysFromCivil(year + month \div 12, (month % 12) + 1, 1)

\* a year below 100 given to the Date constructor counts from 1900
FullYear(year) == IF year < 100 THEN 1900 + year ELSE year

\* the largest day number a Date can hold: 8.64e15 ms on either side of
\* 1970-01-01
MaxDateDays == 100000000

MonthNames ==
    << <<"j", "a", "n", "u", "a", "r", "y">>,
       <<"f", "e", "b", "r", "u", "a", "r", "y">>,
       <<"m", "a", "r", "c", "h">>,
       <<"a", "p", "r", "i", "l">>,
       <<"m", "a", "y">>,
       <<"j", "u", "n", "e">>,
       <<"j", "u", "l", "y">>,
       <<"a", "u", "g", "u", "s", "t">>,
       <<"s", "e", "p", "t", "e", "m", "b", "e", "r">>,
       <<"o", "c", "t", "o", "b", "e", "r">>,
       <<"n", "o", "v", "e", "m", "b", "e", "r">>,
       <<"d", "e", "c", "e", "m", "b", "e", "r">> >>

\* the text matches the word at position i, whatever the case
MatchesAt(text, i, word) ==
    /\ i >= 1
    /\ i + Len(word) - 1 <= Len(text)
    /\ toLowerCase(SubSeq(text, i, i + Len(word) - 1)) = word

\* (january|...|december)\s+(\d{4}) matches at position i with month m
MonthYearAt(text, i, m) ==
    /\ MatchesAt(text, i, MonthNames[m])
    /\ LET j == i + Len(MonthNames[m])
           k == SkipSpaces(text, j)
       IN /\ k > j
          /\ k + 3 <= Len(text)
          /\ \A n \in 0..3 : IsDigit(text[k + n])

NoMatch == [found |-> FALSE, at |-> 0, month |-> 0, year |-> 0, days |-> 0, end |-> 0]

Smallest(S) == CHOOSE i \in S : \A j \in S : i <= j

\* period.match of the month and year: the leftmost match, its month as
\* the index of monthMap and its year
monthYearMatch(text) ==
    IF \A i \in 1..Len(text) : \A m \in 1..12 : ~MonthYearAt(text, i, m) THEN NoMatch
    ELSE LET i == Smallest({ j \in 1..Len(text) : \E m \in 1..12 : MonthYearAt(text, j, m) })
             m == CHOOSE m \in 1..12 : MonthYearAt(text, i, m)
             k == SkipSpaces(text, i + Len(MonthNames[m]))
         IN [found |-> TRUE, at |-> i, month |-> m - 1,
             year |-> DigitsValue(text, k, k + 4), days |-> 0, end |-> k + 3]

LastWord == <<"l", "a", "s", "t", " ">>

DayWord == <<" ", "d", "a", "y">>

\* last (\d+) days? matches at position i
LastDaysAt(text, i) ==
    /\ MatchesAt(text, i, LastWord)
    /\ LET j == i + Len(LastWord)
           e == DigitRunEnd(text, j)
       IN e > j /\ MatchesAt(text, e, DayWord)

\* period.match of the days: the leftmost match and parseInt of its digits
daysMatch(text) ==
    IF \A i \in 1..Len(text) : ~LastDaysAt(text, i) THEN NoMatch
    ELSE LET i == Smallest({ k \in 1..Len(text) : LastDaysAt(text, k) })
             j == i + Len(LastWord)
             e == DigitRunEnd(text, j)
             last == e + Len(DayWord) - 1
         IN [found |-> TRUE, at |-> i, month |-> 0, year |-> 0,
             days |-> DigitsValue(text, j, e),
             end |-> IF last < Len(text) /\ LowerChar(text[last + 1]) = "s"
                     THEN last + 1 ELSE last]

PeriodLastMonth == <<"l", "a", "s", "t", " ", "m", "o", "n", "t", "h">>

PeriodLast3Months == <<"l", "a", "s", "t", " ", "3", " ", "m", "o", "n", "t", "h", "s">>

PeriodLast6Months == <<"l", "a", "s", "t", " ", "6", " ", "m", "o", "n", "t", "h", "s">>

PeriodYearToDate == <<"y", "e", "a", "r", " ", "t", "o", " ", "d", "a", "t", "e">>

PeriodCurrentMonth == <<"c", "u", "r", "r", "e", "n", "t", " ", "m", "o", "n", "t", "h">>

NoDate == [y |-> 0, m |-> 0, d |-> 0]

Named(timeframe) ==
    [threw |-> FALSE, timeframe |-> timeframe, hasDates |-> FALSE,
     start |-> NoDate, end |-> NoDate]

\* a Custom range between two day numbers, the date part of
\* toISOString(), which throws a RangeError on an Invalid Date
Custom(startDay, endDay) ==
    IF startDay < 0 - MaxDateDays \/ startDay > MaxDateDays
    THEN [threw |-> TRUE, timeframe |-> "", hasDates |-> FALSE,
          start |-> NoDate, end |-> NoDate]
    ELSE [threw |-> FALSE, timeframe |-> "Custom", hasDates |-> TRUE,
          start |-> CivilFromDays(startDay), end |-> CivilFromDays(endDay)]

\* getTimeRange, now being the day number of new Date()
getTimeRange(text, now) ==
    LET currentYear == CivilFromDays(now).y
        currentMonth == CivilFromDays(now).m - 1
        lower == toLowerCase(text)
    IN IF monthYearMatch(text).found
       THEN LET year == FullYear(monthYearMatch(text).year)
                month == monthYearMatch(text).month
            IN Custom(MonthStart(year, month), MonthStart(year, month + 1) - 1)
       ELSE IF daysMatch(text).found
       THEN Custom(now - daysMatch(text).days, now)
       ELSE IF lower = PeriodLastMonth
       THEN Custom(MonthStart(currentYear, currentMonth - 1),
                   MonthStart(currentYear, currentMonth) - 1)
       ELSE IF lower = PeriodLast3Months
       THEN Custom(MonthStart(currentYear, currentMonth - 3),
                   MonthStart(currentYear, currentMonth) - 1)
       ELSE IF lower = PeriodLast6Months
       THEN Custom(MonthStart(currentYear, currentMonth - 6),
                   MonthStart(currentYear, currentMonth) - 1)
       ELSE IF lower = PeriodYearToDate THEN Named("YearToDate")
       ELSE Named("MonthToDate")

\* String.prototype.trim
RECURSIVE TrimEnd(_)
TrimEnd(text) ==
    IF text # << >> /\ text[Len(text)] = " " THEN TrimEnd(SubSeq(text, 1, Len(text) - 1))
    ELSE text

trim(text) == TrimEnd(SubSeq(text, SkipSpaces(text, 1), Len(text)))

\* extractTimePeriod of the chat endpoint, on the question in lower case
extractTimePeriod(question) ==
    IF monthYearMatch(question).found
    THEN LET found == monthYearMatch(question)
         IN SubSeq(question, found.at, found.at + Len(MonthNames[found.month + 1]) - 1)
              \o <<" ">> \o SubSeq(question, found.end - 3, found.end)
    ELSE IF daysMatch(question).found
    THEN toLowerCase(SubSeq(question, daysMatch(question).at, daysMatch(question).end))
    ELSE IF Includes(question, PeriodLastMonth) THEN PeriodLastMonth
    ELSE IF \/ Includes(question, PeriodLast3Months)
            \/ Includes(question, <<"l", "a", "s", "t", " ", "t", "h", "r", "e", "e", " ", "m", "o", "n", "t", "h", "s">>)
    THEN PeriodLast3Months
    ELSE IF \/ Includes(question, PeriodLast6Months)
            \/ Includes(question, <<"l", "a", "s", "t", " ", "s", "i", "x", " ", "m", "o", "n", "t", "h", "s">>)
    THEN PeriodLast6Months
    ELSE IF Includes(question, PeriodYearToDate) \/ Includes(question, <<"y", "t", "d">>)
    THEN PeriodYearToDate
    ELSE PeriodCurrentMonth

----------------------------------------------------------------------------
(* The chat page: its messages, its history and the browser's storage.    *)
(* messages.value is an array of its own (at = 0, its content in own) or  *)
(* the very array of the item of the history at the index at, so that a   *)
(* push through one is seen through the other.  A message carries the     *)
(* number of the question it belongs to.                                  *)

MAX_HISTORY_ITEMS == 8

\* the message of the bot the page opens with
Greeting == [role |-> "bot", text |-> "Hi there!", of |-> 0]

UserMessage(n) == [role |-> "user", text |-> "inputText", of |-> n]

BotMessage(n) == [role |-> "bot", text |-> "response", of |-> n]

ErrorMessage == [role |-> "bot", text |-> "Sorry, something went wrong.", of |-> 0]

\* messages.value.push(message): the array messages.value refers to
\* grows, be it the array of an item of the history
Push(ref, history, message) ==
    IF ref.at = 0
    THEN [messages |-> [ref EXCEPT !.own = Append(@, message)], chatHistory |-> history]
    ELSE [messages |-> ref,
          chatHistory |-> [history EXCEPT ![ref.at].messages = Append(@, message)]]

\* the refs of the page after its script has run and onMounted has read
\* the storage, in which earlier visits left the given number of items
Mounted(saved) ==
    LET items == [j \in 1..saved |->
                     [summary |-> j - saved - 1,
                      messages |-> <<UserMessage(j - saved - 1), BotMessage(j - saved - 1)>>]]
    IN /\ messages = [at |-> 0, own |-> <<Greeting>>]
       /\ chatHistory = items
       /\ localStorage = IF saved = 0 THEN None ELSE Some(items)
       /\ loading = FALSE
       /\ requests = {}
       /\ sent = 0

----------------------------------------------------------------------------
(* The cost endpoint *)

\* the keys of the response the chat endpoint reads, all absent
NoData ==
    [error |-> None, cost |-> None, serviceBreakdown |-> None, costSpikes |-> None,
     seasonality |-> None, rootCauseAnalysis |-> None, budget |-> None,
     unusedResources |-> None, underutilizedVMs |-> None, virtualNetworks |-> None,
     grafana |-> None, cognitiveServices |-> None, trafficSpikes |-> None,
     misconfigurations |-> None, vnetAnomalies |-> None, benchmarkComparisons |-> None,
     multiCloudBenchmarks |-> None]

\* the value of the catch block
ErrorResult == [NoData EXCEPT !.error = Some("Failed to fetch data")]

NoLocals ==
    [budget |-> None, unusedResources |-> None, underutilizedVMs |-> None,
     virtualNetworks |-> None, grafana |-> None, cognitiveServices |-> None,
     vnets |-> None, trafficSpikes |-> None, benchmarks |-> None,
     benchmarkComparisons |-> None, multiCloudBenchmarks |-> None]

RECURSIVE FlatBreakdown(_)
FlatBreakdown(dc) ==
    IF dc = << >> THEN << >>
    ELSE FlatBreakdown(SubSeq(dc, 1, Len(dc) - 1)) \o dc[Len(dc)].serviceBreakdown

RECURSIVE TotalOf(_)
TotalOf(dc) ==
    IF dc = << >> THEN Num(0)
    ELSE Add(TotalOf(SubSeq(dc, 1, Len(dc) - 1)), dc[Len(dc)].cost)

\* the loop body of analyzeNetworkTraffic for one watcher: skipped when
\* the query failed or gave fewer than two entries, a spike when the
\* latest entry is more than 30% above the previous one (over a previous
\* entry of 0 the increase is Infinity, or NaN when the latest is 0 too)
IsTrafficSpike(watcher) ==
    /\ watcher.logs # None
    /\ Len(watcher.logs[1]) >= 2
    /\ LET latestTraffic == watcher.logs[1][1]
           previousTraffic == watcher.logs[1][2]
       IN IF previousTraffic = 0 THEN latestTraffic > 0
          ELSE (latestTraffic - previousTraffic) * 100 > 30 * previousTraffic

analyzeNetworkTraffic(watchers) ==
    LET spiking == SelectSeq(watchers, IsTrafficSpike)
    IN [i \in 1..Len(spiking) |->
           LET latestTraffic == spiking[i].logs[1][1]
               previousTraffic == spiking[i].logs[1][2]
           IN [vnetName |-> spiking[i].name,
               trafficIncreasePercentage |->
                   IF previousTraffic > 0
                   THEN [t |-> "num",
                         v |-> PercentToFixed(latestTraffic - previousTraffic,
                                              previousTraffic)]
                   ELSE [t |-> "inf", v |-> 0]]]

RECURSIVE detectMisconfigurations(_)
detectMisconfigurations(vnets) ==
    IF vnets = << >> THEN << >>
    ELSE LET vnet == Head(vnets)
         IN (IF Len(vnet.peerings) = 0 THEN <<[vnet |-> vnet.name, missing |-> "peerings"]>> ELSE << >>)
              \o (IF Len(vnet.gateways) = 0 THEN <<[vnet |-> vnet.name, missing |-> "gateways"]>> ELSE << >>)
              \o (IF Len(vnet.subnets) = 0 THEN <<[vnet |-> vnet.name, missing |-> "subnets"]>> ELSE << >>)
              \o detectMisconfigurations(Tail(vnets))

\* IsMutating with the three words matched in any case
IsMutatingAnyCase(event) ==
    \/ Includes(toLowerCase(event.operationName), <<"w", "r", "i", "t", "e">>)
    \/ Includes(toLowerCase(event.operationName), <<"c", "r", "e", "a", "t", "e">>)
    \/ Includes(toLowerCase(event.operationName), <<"u", "p", "d", "a", "t", "e">>)

IsMutating(event) ==
    \/ Includes(event.operationName, <<"W", "r", "i", "t", "e">>)
    \/ Includes(event.operationName, <<"C", "r", "e", "a", "t", "e">>)
    \/ Includes(event.operationName, <<"U", "p", "d", "a", "t", "e">>)

\* analyzeRootCause on the events fetched for the day of the spike
analyzeRootCause(events) == SelectSeq(events, IsMutating)

\* DateMatch with every descriptor taken to hold a date
DateMatchAlways(spike) == TRUE

\* spike.match(/\*\*(\d{4}-\d{2}-\d{2})\*\*/): the descriptor opens with
\* its date between asterisks, which matches when it is YYYY-MM-DD
DateMatch(spike) == spike.date.iso

MatchedSpikes(spikes) == { i \in 1..Len(spikes) : DateMatch(spikes[i]) }

\* the entries of rootCauseAnalysis after filter(Boolean), given the
\* events fetched for each spike with a date
RootCauseEntries(spikes, eventsOf) ==
    LET matched == SelectSeq([i \in 1..Len(spikes) |-> i],
                             LAMBDA i : DateMatch(spikes[i]))
    IN [k \in 1..Len(matched) |->
           [date |-> spikes[matched[k]].date,
            spikeDetails |-> spikes[matched[k]],
            rootCauses |-> analyzeRootCause(eventsOf[matched[k]])]]

\* the response object of the handler
CostResponse(loc, dc, spikes, rootCauseAnalysis) ==
    [NoData EXCEPT
        !.cost = Some(TotalOf(dc)),
        !.serviceBreakdown = Some(FlatBreakdown(dc)),
        !.benchmarkComparisons = loc.benchmarkComparisons,
        !.budget = loc.budget,
        !.unusedResources = loc.unusedResources,
        !.multiCloudBenchmarks = loc.multiCloudBenchmarks,
        !.underutilizedVMs = loc.underutilizedVMs,
        !.costSpikes = Some(spikes),
        !.grafana = loc.grafana,
        !.virtualNetworks = loc.vnets,
        !.trafficSpikes = loc.trafficSpikes,
        !.misconfigurations = Some(detectMisconfigurations(loc.vnets[1])),
        !.rootCauseAnalysis = Some(rootCauseAnalysis),
        !.cognitiveServices = loc.cognitiveServices]

OthersIdle ==
    /\ multiCloudBenchmarks = None
    /\ eventQueries = << >>
    /\ rootCauseList = << >>

\* nothing analysed yet outside the request
UnitsIdle ==
    /\ seasonality = << >>
    /\ eventFeed = << >>
    /\ rootCauses = << >>
    /\ serviceCosts = << >>
    /\ benchmarkTable = [source |-> "none", entries |-> << >>]
    /\ benchmarkComparisons = << >>
    /\ periodText = << >>
    /\ today = 0
    /\ timeRange = Named("")
    /\ OthersIdle
    /\ Mounted(0)

PipelineIdle ==
    /\ costPc = "idle"
    /\ local = NoLocals
    /\ failedStep = ""
    /\ costResult = None
    /\ chatPc = "idle"
    /\ context = None
    /\ narrativeCalls = 0
    /\ chatResult = None

\* an awaited call rejects: the catch block of the handler returns the
\* error object
Rejects(step) ==
    /\ costPc = step
    /\ failedStep' = step
    /\ costResult' = Some(ErrorResult)
    /\ costPc' = "done"
    /\ UNCHANGED <<unitVars, aggVars, stage, local, chatVars>>

\* an awaited call resolves with one of the answers and its result is kept
Resolves(step, next, field, answers) ==
    /\ costPc = step
    /\ \E answer \in answers : local' = [local EXCEPT ![field] = Some(answer)]
    /\ costPc' = next
    /\ UNCHANGED <<unitVars, aggVars, stage, failedStep, costResult, chatVars>>

GetAzureToken ==
    \/ /\ costPc = "getAzureToken"
       /\ costPc' = "getDailyCostData"
       /\ UNCHANGED <<unitVars, aggVars, stage, local, failedStep, costResult, chatVars>>
    \/ Rejects("getAzureToken")

\* getCostResponseWithBudget up to its first enrichment: the billing
\* query, the grouping of its rows and the spike detection
GetDailyCostData ==
    \/ /\ costPc = "getDailyCostData"
       /\ \E feed \in CostFeeds :
             /\ rows' = feed
             /\ dailyCosts' = getDailyCostData(feed)
             /\ percentageThreshold' = 5
             /\ absoluteThreshold' = Units(50)
             /\ costSpikes' = detectCostSpikes(getDailyCostData(feed), 5, Units(50))
       /\ costPc' = "fetchMultiCloudBenchmarks"
       /\ UNCHANGED <<unitVars, stage, local, failedStep, costResult, chatVars>>
    \/ Rejects("getDailyCostData")

\* fetchMultiCloudBenchmarks(servicesToCompare), which cannot reject
AwaitMultiCloudBenchmarks ==
    Resolves("fetchMultiCloudBenchmarks", "fetchIndustryBenchmarks", "multiCloudBenchmarks",
             fetchMultiCloudBenchmarks(servicesToCompare(FlatBreakdown(dailyCosts))))

\* what fetchIndustryBenchmarks returns: the fallback table when the key is
\* not set or the request fails, else the benchmarks member of the answer,
\* which is undefined when the answer has none
BenchmarkOutcomes(serviceNames) ==
    { [source |-> "noKey", defined |-> TRUE,
       entries |-> getFallbackBenchmarks(serviceNames)],
      [source |-> "requestFailed", defined |-> TRUE,
       entries |-> getFallbackBenchmarks(serviceNames)],
      [source |-> "answered", defined |-> TRUE, entries |-> ApiBenchmarks],
      [source |-> "noTable", defined |-> FALSE, entries |-> << >>] }

\* fetchIndustryBenchmarks and compareWithBenchmarks: the callback of
\* clientData.map calls benchmarks.find, a TypeError on undefined, which
\* the catch block of the handler answers
AwaitIndustryBenchmarks ==
    /\ costPc = "fetchIndustryBenchmarks"
    /\ \E table \in BenchmarkOutcomes(servicesToCompare(FlatBreakdown(dailyCosts))) :
          IF ~table.defined /\ FlatBreakdown(dailyCosts) # << >>
          THEN /\ local' = [local EXCEPT !.benchmarks = Some(table)]
               /\ failedStep' = "compareWithBenchmarks"
               /\ costResult' = Some(ErrorResult)
               /\ costPc' = "done"
          ELSE /\ local' = [local EXCEPT
                               !.benchmarks = Some(table),
                               !.benchmarkComparisons =
                                   Some(compareWithBenchmarks(FlatBreakdown(dailyCosts),
                                                              table.entries))]
               /\ costPc' = "getAzureBudget"
               /\ UNCHANGED <<failedStep, costResult>>
    /\ UNCHANGED <<unitVars, aggVars, stage, chatVars>>

GetAzureBudget ==
    \/ Resolves("getAzureBudget", "detectUnusedResources", "budget", Budgets)
    \/ Rejects("getAzureBudget")

DetectUnusedResources ==
    \/ Resolves("detectUnusedResources", "getUnderutilizedVMRecommendations",
                "unusedResources", UnusedResourcesFeeds)
    \/ Rejects("detectUnusedResources")

GetUnderutilizedVMRecommendations ==
    \/ Resolves("getUnderutilizedVMRecommendations", "getVirtualNetworks",
                "underutilizedVMs", { [recommendations |-> r] : r \in AdvisorFeeds })
    \/ Rejects("getUnderutilizedVMRecommendations")

GetVirtualNetworks ==
    \/ Resolves("getVirtualNetworks", "getGrafanaMetricsAndRecommendations",
                "virtualNetworks", VNetFeeds)
    \/ Rejects("getVirtualNetworks")

GetGrafanaMetricsAndRecommendations ==
    \/ Resolves("getGrafanaMetricsAndRecommendations",
                "getCognitiveServicesMetricsAndRecommendations", "grafana", MetricsFeeds)
    \/ Rejects("getGrafanaMetricsAndRecommendations")

GetCognitiveServicesMetricsAndRecommendations ==
    \/ Resolves("getCognitiveServicesMetricsAndRecommendations", "getVirtualNetworksAgain",
                "cognitiveServices", MetricsFeeds)
    \/ Rejects("getCognitiveServicesMetricsAndRecommendations")

GetVirtualNetworksAgain ==
    \/ Resolves("getVirtualNetworksAgain", "analyzeNetworkTraffic", "vnets", VNetFeeds)
    \/ Rejects("getVirtualNetworksAgain")

AnalyzeNetworkTraffic ==
    \/ Resolves("analyzeNetworkTraffic", "analyzeRootCause", "trafficSpikes",
                { analyzeNetworkTraffic(w) : w \in WatcherFeeds })
    \/ Rejects("analyzeNetworkTraffic")

\* Promise.all over the spikes, then detectMisconfigurations and the
\* response; one rejected event query rejects the whole
RootCauseAnalysis ==
    \/ /\ costPc = "analyzeRootCause"
       /\ \E eventsOf \in [1..Len(costSpikes) -> EventFeeds] :
             /\ \A i \in 1..Len(costSpikes) : ~DateMatch(costSpikes[i]) => eventsOf[i] = << >>
             /\ costResult' = Some(CostResponse(local, dailyCosts, costSpikes,
                                                RootCauseEntries(costSpikes, eventsOf)))
       /\ costPc' = "done"
       /\ UNCHANGED <<unitVars, aggVars, stage, local, failedStep, chatVars>>
    \/ /\ MatchedSpikes(costSpikes) # {}
       /\ Rejects("analyzeRootCause")

----------------------------------------------------------------------------
(* The chat endpoint *)

RawNull == [t |-> "null", v |-> 0, s |-> << >>]

\* JSON.stringify of a number, read back by the client: NaN becomes null
JsonNumber(x) == IF IsNum(x) THEN RawNum(x.v) ELSE RawNull

\* the body the chat endpoint receives for a value the cost handler returned
JsonOf(result) ==
    [result EXCEPT
        !.serviceBreakdown =
            IF @ = None THEN None
            ELSE Some([i \in 1..Len(@[1]) |->
                          [service |-> @[1][i].service, cost |-> JsonNumber(@[1][i].cost)]])]

\* Array.prototype.sort with (a, b) => b.cost - a.cost: descending and stable
RECURSIVE InsertDescending(_, _)
InsertDescending(sorted, e) ==
    IF sorted = << >> THEN <<e>>
    ELSE IF Head(sorted).cost.v >= e.cost.v
         THEN <<Head(sorted)>> \o InsertDescending(Tail(sorted), e)
         ELSE <<e>> \o sorted

RECURSIVE SortDescending(_)
SortDescending(list) ==
    IF list = << >> THEN << >>
    ELSE InsertDescending(SortDescending(SubSeq(list, 1, Len(list) - 1)), list[Len(list)])

\* processedServices; the map calls parseCost on every entry
ProcessingThrows(serviceBreakdown) ==
    \E i \in 1..Len(serviceBreakdown) : parseCostThrows(serviceBreakdown[i].cost)

ProcessedServices(serviceBreakdown) ==
    SortDescending(
        SelectSeq([i \in 1..Len(serviceBreakdown) |->
                      [name |-> serviceBreakdown[i].service,
                       cost |-> parseCost(serviceBreakdown[i].cost)]],
                  LAMBDA service : service.cost.v > 0))

RECURSIVE SumOfServices(_)
SumOfServices(services) ==
    IF services = << >> THEN 0
    ELSE SumOfServices(SubSeq(services, 1, Len(services) - 1)) + services[Len(services)].cost.v

\* (currentSpend / budgetAmount) * 100, as the exact quotient n / d times
\* 100, or NaN for 0 / 0 and Infinity for a positive spend over 0
BudgetUtilization(currentSpend, budgetAmount) ==
    IF budgetAmount # 0 THEN [t |-> "num", n |-> currentSpend, d |-> budgetAmount]
    ELSE IF currentSpend = 0 THEN [t |-> "nan", n |-> 0, d |-> 1]
    ELSE [t |-> "inf", n |-> 0, d |-> 1]

\* budgetUtilization >= 90
AtLeast90(u) == u.t = "inf" \/ (u.t = "num" /\ RatioAtLeast(u.n * 100, u.d, 90))

\* budgetUtilization.toFixed(2): hundredths of a percent, "NaN" or "Infinity"
UtilizationToFixed(u) ==
    IF u.t # "num" THEN [t |-> u.t, v |-> 0]
    ELSE IF u.d > 0 THEN [t |-> "num", v |-> PercentToFixed(u.n, u.d)]
    ELSE [t |-> "num", v |-> PercentToFixed(0 - u.n, 0 - u.d)]

NoAlert == [kind |-> "none", figure |-> 0]

\* alertMessage with the forecast tested before the utilization
alertMessageForecastFirst(hasBudget, budgetAmount, currentSpend, forecastSpend) ==
    IF hasBudget /\ budgetAmount > 0
    THEN IF forecastSpend > budgetAmount
         THEN [kind |-> "overForecast", figure |-> forecastSpend - budgetAmount]
         ELSE IF AtLeast90(BudgetUtilization(currentSpend, budgetAmount))
         THEN [kind |-> "lowRemaining", figure |-> budgetAmount - currentSpend]
         ELSE NoAlert
    ELSE NoAlert

\* alertMessage: which of the two alerts, with the remaining budget or
\* the overage it quotes
alertMessage(hasBudget, budgetAmount, currentSpend, forecastSpend) ==
    IF hasBudget /\ budgetAmount > 0
    THEN IF AtLeast90(BudgetUtilization(currentSpend, budgetAmount))
         THEN [kind |-> "lowRemaining", figure |-> budgetAmount - currentSpend]
         ELSE IF forecastSpend > budgetAmount
         THEN [kind |-> "overForecast", figure |-> forecastSpend - budgetAmount]
         ELSE NoAlert
    ELSE NoAlert

\* TopFive taken from the end of the list
LastFive(services) == SubSeq(services, IF Len(services) < 5 THEN 1 ELSE Len(services) - 4, Len(services))

\* processedServices.slice(0, 5)
TopFive(services) == SubSeq(services, 1, IF Len(services) < 5 THEN Len(services) ELSE 5)

\* the context object built from the body of the cost endpoint's answer
Context(data) ==
    LET processedServices == ProcessedServices(OrElse(data.serviceBreakdown, << >>))
        hasBudget == data.budget # None
        budgetAmount == IF hasBudget THEN data.budget[1].amount ELSE 0
        currentSpend == IF hasBudget THEN data.budget[1].currentSpend ELSE 0
        forecastSpend == IF hasBudget THEN data.budget[1].forecastSpend ELSE 0
    IN [totalCost |-> SumOfServices(processedServices),
        services |-> TopFive(processedServices),
        costSpikes |-> OrElse(data.costSpikes, << >>),
        multiCloudBenchmarks |-> OrElse(data.multiCloudBenchmarks, << >>),
        seasonality |-> OrElse(data.seasonality, << >>),
        rootCauseAnalysis |-> OrElse(data.rootCauseAnalysis, << >>),
        budget |-> [amount |-> budgetAmount,
                    currentSpend |-> currentSpend,
                    forecastSpend |-> forecastSpend,
                    utilization |-> UtilizationToFixed(BudgetUtilization(currentSpend, budgetAmount)),
                    remaining |-> budgetAmount - currentSpend],
        alert |-> alertMessage(hasBudget, budgetAmount, currentSpend, forecastSpend),
        unusedResources |-> OrElse(data.unusedResources,
                                   [unusedPublicIPs |-> << >>, unusedNSGs |-> << >>,
                                    unusedLoadBalancers |-> << >>]),
        cognitiveServices |-> OrElse(data.cognitiveServices,
                                     [metrics |-> << >>, recommendations |-> << >>]),
        grafana |-> OrElse(data.grafana, [metrics |-> << >>, recommendations |-> << >>]),
        underutilizedVMs |-> OrElse(data.underutilizedVMs, [recommendations |-> << >>]),
        vnetAnomalies |-> OrElse(data.vnetAnomalies,
                                 [trafficSpikes |-> << >>, misconfigurations |-> << >>]),
        virtualNetworks |-> OrElse(data.virtualNetworks, << >>),
        benchmarkComparisons |-> OrElse(data.benchmarkComparisons, << >>)]

ChatError(message) == [error |-> Some(message), response |-> None]

\* the handler sends its request to the cost endpoint, whose handler starts
ChatRequest ==
    /\ chatPc = "idle"
    /\ chatPc' = "awaitCost"
    /\ costPc' = "getAzureToken"
    /\ UNCHANGED <<unitVars, aggVars, stage, local, failedStep, costResult, context,
                   narrativeCalls, chatResult>>

\* the request to the cost endpoint itself fails (no connection, an HTTP
\* error status): the catch block answers
ChatRequestFails ==
    /\ chatPc = "awaitCost"
    /\ costPc = "getAzureToken"
    /\ chatPc' = "done"
    /\ costPc' = "unreached"
    /\ chatResult' = Some(ChatError("Failed to fetch Azure cost data"))
    /\ UNCHANGED <<unitVars, aggVars, stage, local, failedStep, costResult, context, narrativeCalls>>

\* the cost endpoint has answered: the context is assembled, or parseCost
\* throws on a cost that is neither a number nor a string
ChatAssemble ==
    /\ chatPc = "awaitCost"
    /\ costPc = "done"
    /\ LET data == JsonOf(costResult[1])
       IN IF ProcessingThrows(OrElse(data.serviceBreakdown, << >>))
          THEN /\ chatPc' = "done"
               /\ chatResult' = Some(ChatError("An unexpected error occurred"))
               /\ UNCHANGED context
          ELSE /\ chatPc' = "awaitNarrative"
               /\ context' = Some(Context(data))
               /\ UNCHANGED chatResult
    /\ UNCHANGED <<unitVars, aggVars, stage, costVars, narrativeCalls>>

\* the request to the narrative generator, built from the context, and
\* its answer or its failure
ChatNarrative ==
    /\ chatPc = "awaitNarrative"
    /\ narrativeCalls' = narrativeCalls + 1
    /\ \/ chatResult' = Some([error |-> None, response |-> Some("narrative")])
       \/ chatResult' = Some(ChatError("Failed to fetch Azure cost data"))
    /\ chatPc' = "done"
    /\ UNCHANGED <<unitVars, aggVars, stage, costVars, context>>

Init ==
    /\ rows = << >>
    /\ dailyCosts = << >>
    /\ costSpikes = << >>
    /\ percentageThreshold = 0
    /\ absoluteThreshold = 0
    /\ stage = "request"
    /\ PipelineIdle
    /\ UnitsIdle

Next ==
    \/ ChatRequest
    \/ ChatRequestFails
    \/ GetAzureToken
    \/ GetDailyCostData
    \/ AwaitMultiCloudBenchmarks
    \/ AwaitIndustryBenchmarks
    \/ GetAzureBudget
    \/ DetectUnusedResources
    \/ GetUnderutilizedVMRecommendations
    \/ GetVirtualNetworks
    \/ GetGrafanaMetricsAndRecommendations
    \/ GetCognitiveServicesMetricsAndRecommendations
    \/ GetVirtualNetworksAgain
    \/ AnalyzeNetworkTraffic
    \/ RootCauseAnalysis
    \/ ChatAssemble
    \/ ChatNarrative

Spec == Init /\ [][Next]_vars

----------------------------------------------------------------------------
(* The analytics run on one billing response *)

InitAggregator ==
    /\ rows \in SeqsUpTo(Rows, MaxRows)
    /\ dailyCosts = << >>
    /\ costSpikes = << >>
    /\ percentageThreshold = 0
    /\ absoluteThreshold = 0
    /\ stage = "rows"
    /\ PipelineIdle
    /\ UnitsIdle

Aggregate ==
    /\ stage = "rows"
    /\ dailyCosts' = getDailyCostData(rows)
    /\ stage' = "aggregated"
    /\ UNCHANGED <<unitVars, rows, costSpikes, percentageThreshold, absoluteThreshold, costVars, chatVars>>

DetectSpikes ==
    /\ stage = "aggregated"
    /\ \E th \in ThresholdPairs :
          /\ percentageThreshold' = th[1]
          /\ absoluteThreshold' = th[2]
          /\ costSpikes' = detectCostSpikes(dailyCosts, th[1], th[2])
    /\ stage' = "detected"
    /\ UNCHANGED <<unitVars, rows, dailyCosts, costVars, chatVars>>

NextAggregator == Aggregate \/ DetectSpikes

SpecAggregator == InitAggregator /\ [][NextAggregator]_vars

----------------------------------------------------------------------------
(* compareWithBenchmarks on one service breakdown *)

MaxClientEntries == 3

\* entries of a service breakdown: costs of Virtual Network below the
\* average 40 of the answered table, 10% and 20% above it (44 and 48,
\* whose variance is 10 and 20 in double arithmetic too), between and
\* beyond, and services the fallback table has or has not
ClientEntries ==
    { [service |-> "Virtual Network", cost |-> Num(Units(c))] :
        c \in {10, 41, 44, 48, 50} }
      \cup { [service |-> "Storage", cost |-> Num(2)],
             [service |-> "Functions", cost |-> Num(Units(5))] }

InitBenchmarks ==
    /\ rows = << >>
    /\ dailyCosts = << >>
    /\ costSpikes = << >>
    /\ percentageThreshold = 0
    /\ absoluteThreshold = 0
    /\ stage = "services"
    /\ PipelineIdle
    /\ seasonality = << >>
    /\ eventFeed = << >>
    /\ rootCauses = << >>
    /\ serviceCosts \in SeqsUpTo(ClientEntries, MaxClientEntries)
    /\ benchmarkTable = [source |-> "none", entries |-> << >>]
    /\ benchmarkComparisons = << >>
    /\ periodText = << >>
    /\ today = 0
    /\ timeRange = Named("")
    /\ OthersIdle
    /\ Mounted(0)

\* fetchIndustryBenchmarks: the fallback table without a key or after a
\* failed request, else the table of the answer
FetchIndustryBenchmarks ==
    /\ stage = "services"
    /\ \/ benchmarkTable' =
             [source |-> "fallback",
              entries |-> getFallbackBenchmarks(servicesToCompare(serviceCosts))]
       \/ benchmarkTable' = [source |-> "api", entries |-> ApiBenchmarks]
    /\ stage' = "benchmarks"
    /\ UNCHANGED <<aggVars, costVars, chatVars, multiCloudBenchmarks, fetchVars, uiVars, seasonality, eventFeed, rootCauses,
                   serviceCosts, benchmarkComparisons, periodText, today, timeRange>>

\* fetchMultiCloudBenchmarks(servicesToCompare), in this run of the
\* pipeline over the service breakdown or in a later one
FetchMultiCloudBenchmarks ==
    /\ stage = "services"
    /\ \E result \in fetchMultiCloudBenchmarks(servicesToCompare(serviceCosts)) :
          multiCloudBenchmarks' = Some(result)
    /\ UNCHANGED <<aggVars, costVars, chatVars, fetchVars, uiVars, stage, seasonality,
                   eventFeed, rootCauses, serviceCosts, benchmarkTable,
                   benchmarkComparisons, periodText, today, timeRange>>

CompareWithBenchmarks ==
    /\ stage = "benchmarks"
    /\ benchmarkComparisons' = compareWithBenchmarks(serviceCosts, benchmarkTable.entries)
    /\ stage' = "compared"
    /\ UNCHANGED <<aggVars, costVars, chatVars, multiCloudBenchmarks, fetchVars, uiVars, seasonality, eventFeed, rootCauses,
                   serviceCosts, benchmarkTable, periodText, today, timeRange>>

NextBenchmarks ==
    FetchMultiCloudBenchmarks \/ FetchIndustryBenchmarks \/ CompareWithBenchmarks

SpecBenchmarks == InitBenchmarks /\ [][NextBenchmarks]_vars

----------------------------------------------------------------------------
(* Properties of the Daily Cost Aggregator and the Spike Detector *)

RECURSIVE SumCosts(_)
SumCosts(entries) ==
    IF entries = << >> THEN Num(0)
    ELSE Add(SumCosts(SubSeq(entries, 1, Len(entries) - 1)), entries[Len(entries)].cost)

Aggregated == stage \in {"aggregated", "detected"}

Qualifies(i) ==
    LET prev == dailyCosts[i - 1].cost
        cur == dailyCosts[i].cost
        den == IF prev.v = 0 THEN Units(1) ELSE prev.v
    IN /\ IsNum(prev)
       /\ IsNum(cur)
       /\ \/ (cur.v - prev.v) * 100 >= percentageThreshold * den
          \/ cur.v - prev.v >= absoluteThreshold

QualifyingDays == { i \in 2..Len(dailyCosts) : Qualifies(i) }

DayTotals == [i \in 1..Len(dailyCosts) |-> dailyCosts[i].cost]

\* C2: a day is reported by detectCostSpikes iff it has a predecessor and
\* its percentage increase >= the relative threshold or its absolute
\* increase >= the absolute threshold; every qualifying day is reported
\* once, in series order, consecutive spikes included; the series
\* [100, 100, 200] under (5%, 50) reports day 3 alone
SpikesAreTheQualifyingDays ==
    stage = "detected" =>
        /\ Len(costSpikes) = Cardinality(QualifyingDays)
        /\ \A k \in 1..Len(costSpikes) :
              \E i \in QualifyingDays :
                  /\ costSpikes[k].date = dailyCosts[i].date
                  /\ k = Cardinality({ j \in QualifyingDays : j <= i })
        /\ ( /\ DayTotals = <<Num(Units(100)), Num(Units(100)), Num(Units(200))>>
             /\ percentageThreshold = 5
             /\ absoluteThreshold = Units(50) )
           => /\ Len(costSpikes) = 1
              /\ costSpikes[1].date = dailyCosts[3].date

\* the series [100, 100, 200] under (5%, 50), day 3 reported
SpikesAreTheQualifyingDaysWitness ==
    /\ stage = "detected"
    /\ DayTotals = <<Num(Units(100)), Num(Units(100)), Num(Units(200))>>
    /\ percentageThreshold = 5
    /\ absoluteThreshold = Units(50)
    /\ Len(costSpikes) = 1

RowsOfDate(k) == SelectSeq(rows, LAMBDA row : row[2] = k)

ServicesOf(entries) == [j \in 1..Len(entries) |-> entries[j].service]

RowServices(rs) == [j \in 1..Len(rs) |-> rs[j][3]]

\* C8: getDailyCostData drops no row and makes one record per distinct
\* date: as many records as distinct dateKeys, as many serviceBreakdown
\* entries as rows, each row in the record of its own date
OneRecordPerDateNoRowDropped ==
    Aggregated =>
        /\ Len(dailyCosts) = Cardinality({ rows[i][2] : i \in 1..Len(rows) })
        /\ Cardinality({ <<i, j>> \in (1..Len(dailyCosts)) \X (1..Len(rows)) :
                            j <= Len(dailyCosts[i].serviceBreakdown) }) = Len(rows)
        /\ \A i \in 1..Len(dailyCosts) :
              ServicesOf(dailyCosts[i].serviceBreakdown)
                 = RowServices(RowsOfDate(dailyCosts[i].date.raw))

\* three rows over two dates, two of them on the same date
OneRecordPerDateNoRowDroppedWitness ==
    /\ Aggregated
    /\ Len(rows) = 3
    /\ Len(dailyCosts) = 2
    /\ \E i \in 1..2 : Len(dailyCosts[i].serviceBreakdown) = 2

DateBefore(a, b) ==
    \/ a.y < b.y
    \/ a.y = b.y /\ a.m < b.m
    \/ a.y = b.y /\ a.m = b.m /\ a.d < b.d

\* C9: the records of getDailyCostData are in strictly ascending date
\* order, for every order of the rows
RecordsAscendingByDate ==
    Aggregated =>
        \A i \in 1..Len(dailyCosts) : \A j \in 1..Len(dailyCosts) :
            i < j => DateBefore(dailyCosts[i].date, dailyCosts[j].date)

RECURSIVE SumParsedCosts(_)
SumParsedCosts(rs) ==
    IF rs = << >> THEN 0
    ELSE parseCost(Head(rs)[1]).v + SumParsedCosts(Tail(rs))

\* C10: a row whose cost cannot be parsed adds 0 to its day and a string
\* cost with symbols adds its numeric value: every day's total is a number
DayTotalsAreParsedSums ==
    Aggregated =>
        \A i \in 1..Len(dailyCosts) :
            /\ IsNum(dailyCosts[i].cost)
            /\ dailyCosts[i].cost.v = SumParsedCosts(RowsOfDate(dailyCosts[i].date.raw))

----------------------------------------------------------------------------
(* Properties of the two endpoints *)

PrimarySteps == {"getAzureToken", "getDailyCostData"}

EnrichmentSteps ==
    {"getAzureBudget", "detectUnusedResources", "getUnderutilizedVMRecommendations",
     "getVirtualNetworks", "getVirtualNetworksAgain", "getGrafanaMetricsAndRecommendations",
     "getCognitiveServicesMetricsAndRecommendations", "analyzeRootCause"}

\* C3: when the credential acquisition or the daily-cost fetch fails, the
\* chat handler assembles no report context and sends nothing to the
\* narrative generator, and what it returns is a failure
PrimaryFailureShortCircuits ==
    failedStep \in PrimarySteps =>
        /\ context = None
        /\ narrativeCalls = 0
        /\ chatResult # None => chatResult[1].error # None

\* C4: when the daily-cost fetch succeeded and one enrichment fetch
\* failed, the cost handler returns a report with the detected spikes,
\* not an error
EnrichmentFailureKeepsReport ==
    (costPc = "done" /\ failedStep \in EnrichmentSteps) =>
        /\ costResult[1].error = None
        /\ costResult[1].costSpikes = Some(costSpikes)

CostSucceeded == costResult # None /\ costResult[1].error = None

\* C5: the report carries the patterns detectSeasonality computes from
\* the request's daily costs: when there are any, the report's seasonality
\* list is that list
ReportCarriesSeasonality ==
    (context # None /\ CostSucceeded /\ detectSeasonality(dailyCosts) # << >>) =>
        context[1].seasonality = detectSeasonality(dailyCosts)

\* C6: with a budget amount <= 0, or no budget record, there is no alert
\* and the utilization put in the report is a number, not the outcome of a
\* division by zero
NoDivisionByZeroBudget ==
    (context # None /\ context[1].budget.amount <= 0) =>
        /\ context[1].alert = NoAlert
        /\ context[1].budget.utilization.t = "num"

\* C7: for a budget with amount > 0 the alert is the low-remaining one when
\* currentSpend / amount * 100 >= 90 (whatever the forecast), else the
\* over-forecast one when forecastSpend > amount, else none; the budget
\* {1000, 950, 1000} gives the low-remaining alert
AlertIsFirstMatch ==
    (context # None /\ CostSucceeded /\ costResult[1].budget[1].amount > 0) =>
        LET b == costResult[1].budget[1]
        IN /\ context[1].alert.kind =
                 IF b.currentSpend * 100 >= 90 * b.amount THEN "lowRemaining"
                 ELSE IF b.forecastSpend > b.amount THEN "overForecast"
                 ELSE "none"
           /\ b = [amount |-> Units(1000), currentSpend |-> Units(950),
                   forecastSpend |-> Units(1000)]
                => context[1].alert = [kind |-> "lowRemaining", figure |-> Units(50)]

\* the budget {1000, 950, 1000} evaluated: utilization 95.00, low-remaining alert
AlertIsFirstMatchWitness ==
    /\ context # None
    /\ CostSucceeded
    /\ costResult[1].budget[1] = [amount |-> Units(1000), currentSpend |-> Units(950),
                                  forecastSpend |-> Units(1000)]
    /\ context[1].budget.utilization = [t |-> "num", v |-> 9500]
    /\ context[1].alert.kind = "lowRemaining"

----------------------------------------------------------------------------
(* The analytics run on a daily series: one row a day, costs below one    *)
(* unit included, days a week and a month apart                           *)

MaxSeriesRows == 3

\* costs of 0, 0.50, 100 and 200 on a Monday, the next day, the next
\* Monday and the same day of the next month
SeriesRows ==
    { <<c, k, "Storage">> :
        c \in {RawNum(0), RawNum(50), RawNum(Units(100)), RawNum(Units(200))},
        k \in {20250106, 20250107, 20250113, 20250206} }

InitSeries ==
    /\ rows \in SeqsUpTo(SeriesRows, MaxSeriesRows)
    /\ dailyCosts = << >>
    /\ costSpikes = << >>
    /\ percentageThreshold = 0
    /\ absoluteThreshold = 0
    /\ stage = "rows"
    /\ PipelineIdle
    /\ UnitsIdle

DetectSeasonality ==
    /\ stage = "detected"
    /\ seasonality' = detectSeasonality(dailyCosts)
    /\ stage' = "analysed"
    /\ UNCHANGED <<aggVars, costVars, chatVars, multiCloudBenchmarks, fetchVars, uiVars, eventFeed, rootCauses, serviceCosts,
                   benchmarkTable, benchmarkComparisons, periodText, today, timeRange>>

NextSeries == Aggregate \/ DetectSpikes \/ DetectSeasonality

SpecSeries == InitSeries /\ [][NextSeries]_vars

----------------------------------------------------------------------------
(* Properties of the Spike Detector and the Seasonality Analyzer on a     *)
(* daily series                                                           *)

SpikesDetected == stage \in {"detected", "analysed"}

Larger(a, b) == IF a >= b THEN a ELSE b

\* C11: the percentage increase of every reported day is
\* (current - previous) / max(previous, 1) * 100, a denominator that is
\* never below 1
PercentageOverMaxOfPreviousAndOne ==
    SpikesDetected =>
        \A k \in 1..Len(costSpikes) :
            LET spike == costSpikes[k]
            IN spike.increasePercentage =
                   PercentToFixed(spike.currentCost.v - spike.prevCost.v,
                                  Larger(spike.prevCost.v, Units(1)))

\* C11 (amended): the percentage increase of every reported day is
\* (current - previous) / d * 100 with d = 1 when previous is 0 and
\* d = previous otherwise, below 1 included
PercentageOverPreviousOrOne ==
    SpikesDetected =>
        \A k \in 1..Len(costSpikes) :
            LET spike == costSpikes[k]
            IN spike.increasePercentage =
                   PercentToFixed(spike.currentCost.v - spike.prevCost.v,
                                  IF spike.prevCost.v = 0 THEN Units(1)
                                  ELSE spike.prevCost.v)

\* a day of 100.00 after a day of 0.50 reported with 19900.00%
PercentageOverPreviousOrOneWitness ==
    /\ SpikesDetected
    /\ \E k \in 1..Len(costSpikes) :
          /\ costSpikes[k].prevCost = Num(50)
          /\ costSpikes[k].currentCost = Num(Units(100))
          /\ costSpikes[k].increasePercentage = 1990000

SpikeDates(spikes) == { spikes[k].date : k \in 1..Len(spikes) }

\* thresholds at and above the ones the source uses
HigherThresholds == {5, 10, 200, 20000} \X {Units(50), Units(150), Units(500)}

\* C12: under thresholds (p2, a2) with p2 >= p1 and a2 >= a1 the days
\* detectCostSpikes reports are among those it reports under (p1, a1), and
\* no more numerous
SpikesShrinkAsThresholdsRise ==
    SpikesDetected =>
        \A th \in HigherThresholds :
            (th[1] >= percentageThreshold /\ th[2] >= absoluteThreshold) =>
                LET fewer == detectCostSpikes(dailyCosts, th[1], th[2])
                IN /\ SpikeDates(fewer) \subseteq SpikeDates(costSpikes)
                   /\ Len(fewer) <= Len(costSpikes)

\* two days reported, of which higher thresholds keep one
SpikesShrinkAsThresholdsRiseWitness ==
    /\ SpikesDetected
    /\ Len(costSpikes) = 2
    /\ \E th \in HigherThresholds :
          /\ th[1] > percentageThreshold
          /\ th[2] > absoluteThreshold
          /\ Len(detectCostSpikes(dailyCosts, th[1], th[2])) = 1

\* C13: for an empty daily series detectCostSpikes and detectSeasonality
\* both return an empty list, and detectCostSpikes returns an empty list
\* for a series of one day
EmptySeriesGivesNothing ==
    /\ (SpikesDetected /\ Len(dailyCosts) <= 1) => costSpikes = << >>
    /\ (stage = "analysed" /\ Len(dailyCosts) = 0) => seasonality = << >>

\* both analytics have run on the series of a billing answer with no rows
EmptySeriesGivesNothingWitness ==
    /\ stage = "analysed"
    /\ rows = << >>
    /\ dailyCosts = << >>
    /\ costSpikes = << >>
    /\ seasonality = << >>

DaysOfBucket(type, key) ==
    { i \in 1..Len(dailyCosts) : KeyOf(type, dailyCosts[i].date) = key }

RECURSIVE SumOfDays(_)
SumOfDays(days) ==
    IF days = {} THEN 0
    ELSE LET i == CHOOSE i \in days : TRUE
         IN dailyCosts[i].cost.v + SumOfDays(days \ {i})

HasPattern(type, key) ==
    \E k \in 1..Len(seasonality) :
        seasonality[k].type = type /\ seasonality[k].bucket = key

\* C14: detectSeasonality emits a weekly pattern for a day of the week iff
\* the summed cost of its days > 1.2 * (sum of all daily costs / 7), a
\* monthly pattern for a day of the month iff the summed cost of its days
\* > 1.2 * (sum of all daily costs / 31), whatever the number of buckets
\* present, and at most one pattern for a bucket
PatternIffAboveFixedAverage ==
    stage = "analysed" =>
        LET total == SumOfDays(1..Len(dailyCosts))
        IN /\ \A key \in 0..6 :
                 HasPattern("weekly", key)
                    <=> SumOfDays(DaysOfBucket("weekly", key)) * 7 * 10 > 12 * total
           /\ \A key \in 1..31 :
                 HasPattern("monthly", key)
                    <=> SumOfDays(DaysOfBucket("monthly", key)) * 31 * 10 > 12 * total
           /\ \A k1 \in 1..Len(seasonality) : \A k2 \in 1..Len(seasonality) :
                 (seasonality[k1].type = seasonality[k2].type
                    /\ seasonality[k1].bucket = seasonality[k2].bucket) => k1 = k2

\* a day of the week holding two days has a pattern, another one with a
\* day of its own has none, and a day of the month has a pattern
PatternIffAboveFixedAverageWitness ==
    /\ stage = "analysed"
    /\ \E key \in 0..6 :
          Cardinality(DaysOfBucket("weekly", key)) = 2 /\ HasPattern("weekly", key)
    /\ \E key \in 0..6 :
          DaysOfBucket("weekly", key) # {} /\ ~HasPattern("weekly", key)
    /\ \E key \in 1..31 : HasPattern("monthly", key)

----------------------------------------------------------------------------
(* analyzeRootCause on one answer of the activity log *)

MaxEvents == 3

Events ==
    { [operationName |-> op, resourceName |-> r] :
        op \in {OpWrite, OpCreate, OpUpdate, OpDelete, OpLowerWrite,
                <<"v", "m", "/", "r", "e", "a", "d">>},
        r \in {"vm-1", "vm-2"} }

InitRootCause ==
    /\ rows = << >>
    /\ dailyCosts = << >>
    /\ costSpikes = << >>
    /\ percentageThreshold = 0
    /\ absoluteThreshold = 0
    /\ stage = "events"
    /\ PipelineIdle
    /\ seasonality = << >>
    /\ eventFeed \in SeqsUpTo(Events, MaxEvents)
    /\ rootCauses = << >>
    /\ serviceCosts = << >>
    /\ benchmarkTable = [source |-> "none", entries |-> << >>]
    /\ benchmarkComparisons = << >>
    /\ periodText = << >>
    /\ today = 0
    /\ timeRange = Named("")
    /\ OthersIdle
    /\ Mounted(0)

AnalyzeRootCause ==
    /\ stage = "events"
    /\ rootCauses' = analyzeRootCause(eventFeed)
    /\ stage' = "causes"
    /\ UNCHANGED <<aggVars, costVars, chatVars, multiCloudBenchmarks, fetchVars, uiVars, seasonality, eventFeed, serviceCosts,
                   benchmarkTable, benchmarkComparisons, periodText, today, timeRange>>

NextRootCause == AnalyzeRootCause

SpecRootCause == InitRootCause /\ [][NextRootCause]_vars

\* the operation names of the feed that contain "Write", "Create" or
\* "Update" as written
NamesWithAWord == {OpWrite, OpCreate, OpUpdate}

WordEvents == { i \in 1..Len(eventFeed) : eventFeed[i].operationName \in NamesWithAWord }

\* C15: analyzeRootCause returns one cause for every event whose operation
\* name contains "Write", "Create" or "Update" in that case, in the order
\* of the feed, and none for the others ("Delete", lower-case "write")
OneCausePerMutatingEvent ==
    stage = "causes" =>
        /\ Len(rootCauses) = Cardinality(WordEvents)
        /\ \A k \in 1..Len(rootCauses) :
              \E i \in WordEvents :
                  /\ rootCauses[k] = eventFeed[i]
                  /\ k = Cardinality({ j \in WordEvents : j <= i })

\* a feed of a Create, a lower-case write and an Update gives the causes
\* of the Create and the Update, in that order
OneCausePerMutatingEventWitness ==
    /\ stage = "causes"
    /\ Len(eventFeed) = 3
    /\ eventFeed[1].operationName = OpCreate
    /\ eventFeed[2].operationName = OpLowerWrite
    /\ eventFeed[3].operationName = OpUpdate
    /\ rootCauses = <<eventFeed[1], eventFeed[3]>>

----------------------------------------------------------------------------
(* Properties of the report's root-cause list *)

\* the spikes of the report whose date came from a date key of eight digits
DatedSpikes(spikes) == { i \in 1..Len(spikes) : NumDigits(spikes[i].date.raw) = 8 }

\* C16: the report's rootCauseAnalysis has one entry, in order, for every
\* detected spike whose descriptor holds a YYYY-MM-DD date and none for a
\* spike whose date is not one (a date key that is not 8 digits); such a
\* spike raises no error and stays in the report's costSpikes
RootCauseEntryPerDatedSpike ==
    /\ CostSucceeded =>
          LET spikes == costResult[1].costSpikes[1]
              entries == costResult[1].rootCauseAnalysis[1]
          IN /\ spikes = costSpikes
             /\ Len(entries) = Cardinality(DatedSpikes(spikes))
             /\ \A k \in 1..Len(entries) :
                   \E i \in DatedSpikes(spikes) :
                       /\ entries[k].date = spikes[i].date
                       /\ entries[k].spikeDetails = spikes[i]
                       /\ k = Cardinality({ j \in DatedSpikes(spikes) : j <= i })
    /\ failedStep = "analyzeRootCause" => DatedSpikes(costSpikes) # {}

\* a report whose only spike has the date 2025-01-071: no root-cause entry,
\* the spike still listed
RootCauseEntryPerDatedSpikeWitness ==
    /\ CostSucceeded
    /\ Len(costResult[1].costSpikes[1]) = 1
    /\ costResult[1].costSpikes[1][1].date.raw = 202501071
    /\ costResult[1].rootCauseAnalysis[1] = << >>

----------------------------------------------------------------------------
(* Properties of the Benchmark Comparator *)

\* the client entries with a reference entry of their service
MatchedEntries ==
    { i \in 1..Len(serviceCosts) :
        \E j \in 1..Len(benchmarkTable.entries) :
            benchmarkTable.entries[j].service = serviceCosts[i].service }

ReferenceOf(name) ==
    CHOOSE b \in { benchmarkTable.entries[j] : j \in 1..Len(benchmarkTable.entries) } :
        b.service = name

\* C17: every client entry with a reference entry gets variance% =
\* (clientCost - average) / average * 100, potentialSavings = clientCost -
\* percentile50 and severity high for variance > 20, medium for
\* 10 < variance <= 20, low otherwise (negative, and exactly 10); exactly
\* 20 is medium
ComparisonFollowsFormulas ==
    stage = "compared" =>
        /\ Len(benchmarkComparisons) = Cardinality(MatchedEntries)
        /\ \A k \in 1..Len(benchmarkComparisons) :
              \E i \in MatchedEntries :
                  LET c == benchmarkComparisons[k]
                      cost == ToMilli(serviceCosts[i].cost.v)
                      ref == ReferenceOf(serviceCosts[i].service)
                      average == ref.averageCostPerUnit
                  IN /\ k = Cardinality({ j \in MatchedEntries : j <= i })
                     /\ c.service = serviceCosts[i].service
                     /\ c.variancePercentage.t = "num"
                     /\ c.variancePercentage.n * average
                           = (cost - average) * c.variancePercentage.d
                     /\ c.potentialSavings = Num(cost - ref.percentile50)
                     /\ c.severity =
                           IF (cost - average) * 100 > 20 * average THEN "high"
                           ELSE IF (cost - average) * 100 > 10 * average THEN "medium"
                           ELSE "low"
                     /\ (cost - average) * 100 = 20 * average => c.severity = "medium"
                     /\ (cost - average) * 100 = 10 * average => c.severity = "low"
                     /\ cost < average => c.severity = "low"

SeveritiesOf(comparisons) == [k \in 1..Len(comparisons) |-> comparisons[k].severity]

\* Virtual Network at 48, 44 and 10 against the average 40: 20% is
\* medium, 10% is low, a negative variance is low, and the savings are the
\* cost less the median 38
ComparisonFollowsFormulasWitness ==
    /\ stage = "compared"
    /\ benchmarkTable.source = "api"
    /\ serviceCosts = <<[service |-> "Virtual Network", cost |-> Num(Units(48))],
                        [service |-> "Virtual Network", cost |-> Num(Units(44))],
                        [service |-> "Virtual Network", cost |-> Num(Units(10))]>>
    /\ SeveritiesOf(benchmarkComparisons) = <<"medium", "low", "low">>
    /\ benchmarkComparisons[1].potentialSavings = Num(10000)

ServicesIn(list) == { list[i].service : i \in 1..Len(list) }

----------------------------------------------------------------------------
(* Properties of the benchmark fallback *)

BenchmarksFetched == local.benchmarks # None

FallbackSources == {"noKey", "requestFailed", "noTable"}

\* C19: when the benchmark key is absent, the benchmark request fails or
\* its answer holds no table, fetchIndustryBenchmarks gives the fallback
\* table of the requested services, the comparisons are computed from it
\* and no error comes of it
FallbackWheneverNoTable ==
    (BenchmarksFetched /\ local.benchmarks[1].source \in FallbackSources) =>
        LET serviceBreakdown == FlatBreakdown(dailyCosts)
            fallback == getFallbackBenchmarks(servicesToCompare(serviceBreakdown))
        IN /\ local.benchmarks[1].defined
           /\ local.benchmarks[1].entries = fallback
           /\ failedStep # "compareWithBenchmarks"
           /\ local.benchmarkComparisons
                 = Some(compareWithBenchmarks(serviceBreakdown, fallback))

----------------------------------------------------------------------------
(* The Time-Range Resolver on one period text *)

\* what is typed to the chat endpoint, or given to the cost endpoint as its
\* period: "January 2025", "costs in march 2024", "january 2025 last 30
\* days", "last 30 days of January 2025", "last 30 days", "Last 1 day",
\* "last 45 days year to date", "last 7 days of last month", "last
\* 200000000 days", "last month", "Last 3 Months", "last 6 months", "year
\* to date", "Year To Date", "ytd", "current month", "costs this month",
\* "yesterday", "last 45 days", "last 0 days" and the empty text
PeriodTexts ==
    { <<"J", "a", "n", "u", "a", "r", "y", " ", "2", "0", "2", "5">>,
      <<"c", "o", "s", "t", "s", " ", "i", "n", " ", "m", "a", "r", "c", "h", " ", "2", "0", "2", "4">>,
      <<"j", "a", "n", "u", "a", "r", "y", " ", "2", "0", "2", "5", " ", "l", "a", "s", "t", " ", "3", "0", " ", "d", "a", "y", "s">>,
      <<"l", "a", "s", "t", " ", "3", "0", " ", "d", "a", "y", "s", " ", "o", "f", " ", "J", "a", "n", "u", "a", "r", "y", " ", "2", "0", "2", "5">>,
      <<"l", "a", "s", "t", " ", "3", "0", " ", "d", "a", "y", "s">>,
      <<"L", "a", "s", "t", " ", "1", " ", "d", "a", "y">>,
      <<"l", "a", "s", "t", " ", "4", "5", " ", "d", "a", "y", "s", " ", "y", "e", "a", "r", " ", "t", "o", " ", "d", "a", "t", "e">>,
      <<"l", "a", "s", "t", " ", "7", " ", "d", "a", "y", "s", " ", "o", "f", " ", "l", "a", "s", "t", " ", "m", "o", "n", "t", "h">>,
      <<"l", "a", "s", "t", " ", "2", "0", "0", "0", "0", "0", "0", "0", "0", " ", "d", "a", "y", "s">>,
      <<"l", "a", "s", "t", " ", "m", "o", "n", "t", "h">>,
      <<"L", "a", "s", "t", " ", "3", " ", "M", "o", "n", "t", "h", "s">>,
      <<"l", "a", "s", "t", " ", "6", " ", "m", "o", "n", "t", "h", "s">>,
      <<"y", "e", "a", "r", " ", "t", "o", " ", "d", "a", "t", "e">>,
      <<"Y", "e", "a", "r", " ", "T", "o", " ", "D", "a", "t", "e">>,
      <<"y", "t", "d">>,
      <<"c", "u", "r", "r", "e", "n", "t", " ", "m", "o", "n", "t", "h">>,
      <<"c", "o", "s", "t", "s", " ", "t", "h", "i", "s", " ", "m", "o", "n", "t", "h">>,
      <<"y", "e", "s", "t", "e", "r", "d", "a", "y">>,
      <<"l", "a", "s", "t", " ", "4", "5", " ", "d", "a", "y", "s">>,
      <<"l", "a", "s", "t", " ", "0", " ", "d", "a", "y", "s">>,
      << >> }

\* 2025-01-15, 2025-03-31, 2024-02-29 and 2026-11-02 as day numbers
Todays ==
    { DaysFromCivil(2025, 1, 15), DaysFromCivil(2025, 3, 31),
      DaysFromCivil(2024, 2, 29), DaysFromCivil(2026, 11, 2) }

InitTimeRange ==
    /\ rows = << >>
    /\ dailyCosts = << >>
    /\ costSpikes = << >>
    /\ percentageThreshold = 0
    /\ absoluteThreshold = 0
    /\ stage = "question"
    /\ PipelineIdle
    /\ seasonality = << >>
    /\ eventFeed = << >>
    /\ rootCauses = << >>
    /\ serviceCosts = << >>
    /\ benchmarkTable = [source |-> "none", entries |-> << >>]
    /\ benchmarkComparisons = << >>
    /\ periodText \in PeriodTexts
    /\ today \in Todays
    /\ timeRange = Named("")
    /\ OthersIdle
    /\ Mounted(0)

\* the chat handler trims and lowers the question, refuses an empty one
\* and extracts the period it asks the cost endpoint for
ExtractTimePeriod ==
    /\ stage = "question"
    /\ trim(periodText) # << >>
    /\ periodText' = extractTimePeriod(toLowerCase(trim(periodText)))
    /\ stage' = "period"
    /\ UNCHANGED <<aggVars, costVars, chatVars, multiCloudBenchmarks, fetchVars, uiVars, seasonality, eventFeed, rootCauses,
                   serviceCosts, benchmarkTable, benchmarkComparisons, today, timeRange>>

\* the cost handler resolves String(query.period || "current month"), the
\* period of the chat handler or one given to the endpoint itself
GetTimeRange ==
    /\ stage \in {"question", "period"}
    /\ periodText' = IF periodText = << >> THEN PeriodCurrentMonth ELSE periodText
    /\ timeRange' = getTimeRange(periodText', today)
    /\ stage' = "resolved"
    /\ UNCHANGED <<aggVars, costVars, chatVars, multiCloudBenchmarks, fetchVars, uiVars, seasonality, eventFeed, rootCauses,
                   serviceCosts, benchmarkTable, benchmarkComparisons, today>>

NextTimeRange == ExtractTimePeriod \/ GetTimeRange

SpecTimeRange == InitTimeRange /\ [][NextTimeRange]_vars

----------------------------------------------------------------------------
(* Properties of the Time-Range Resolver *)

\* the period names one of the months of the texts, with its year
NamesJanuary2025(text) == Includes(toLowerCase(text), <<"j", "a", "n", "u", "a", "r", "y", " ", "2", "0", "2", "5">>)

NamesMarch2024(text) == Includes(toLowerCase(text), <<"m", "a", "r", "c", "h", " ", "2", "0", "2", "4">>)

NamesAMonth(text) == NamesJanuary2025(text) \/ NamesMarch2024(text)

\* the period asks for the last N days, N one of the counts of the texts
AsksLastDays(text) ==
    \E count \in { <<"1", " ", "d", "a", "y">>,
                     <<"7", " ", "d", "a", "y", "s">>,
                     <<"3", "0", " ", "d", "a", "y", "s">>,
                     <<"4", "5", " ", "d", "a", "y", "s">>,
                     <<"0", " ", "d", "a", "y", "s">>,
                     <<"2", "0", "0", "0", "0", "0", "0", "0", "0", " ", "d", "a", "y", "s">> } :
        Includes(toLowerCase(text), LastWord \o count)

FixedVocabulary ==
    {PeriodLastMonth, PeriodLast3Months, PeriodLast6Months, PeriodYearToDate,
     PeriodCurrentMonth}

\* C20: getTimeRange never fails; a month and year win over "last N
\* days", which wins over the fixed vocabulary; "year to date" gives the
\* timeframe YearToDate without dates; "current month" and every text
\* that matches nothing give MonthToDate without dates
ResolverNeverFailsAndKeepsPriority ==
    stage = "resolved" =>
        /\ ~timeRange.threw
        /\ NamesJanuary2025(periodText) =>
              /\ timeRange.timeframe = "Custom"
              /\ timeRange.start = [y |-> 2025, m |-> 1, d |-> 1]
              /\ timeRange.end = [y |-> 2025, m |-> 1, d |-> 31]
        /\ NamesMarch2024(periodText) =>
              /\ timeRange.timeframe = "Custom"
              /\ timeRange.start = [y |-> 2024, m |-> 3, d |-> 1]
              /\ timeRange.end = [y |-> 2024, m |-> 3, d |-> 31]
        /\ (~NamesAMonth(periodText) /\ AsksLastDays(periodText)) =>
              /\ timeRange.timeframe = "Custom"
              /\ timeRange.hasDates
              /\ timeRange.end = CivilFromDays(today)
        /\ ( /\ ~NamesAMonth(periodText)
             /\ ~AsksLastDays(periodText)
             /\ toLowerCase(periodText) = PeriodYearToDate ) =>
              /\ timeRange.timeframe = "YearToDate"
              /\ ~timeRange.hasDates
        /\ ( /\ ~NamesAMonth(periodText)
             /\ ~AsksLastDays(periodText)
             /\ toLowerCase(periodText) \notin FixedVocabulary \ {PeriodCurrentMonth} ) =>
              /\ timeRange.timeframe = "MonthToDate"
              /\ ~timeRange.hasDates

\* the texts "last N days" and their N
LastDaysTexts ==
    { [text |-> LastWord \o <<"0", " ", "d", "a", "y", "s">>, days |-> 0],
      [text |-> LastWord \o <<"3", "0", " ", "d", "a", "y", "s">>, days |-> 30],
      [text |-> LastWord \o <<"4", "5", " ", "d", "a", "y", "s">>, days |-> 45],
      [text |-> LastWord \o <<"2", "0", "0", "0", "0", "0", "0", "0", "0", " ", "d", "a", "y", "s">>,
       days |-> 200000000] }

\* C21: for "last N days", whatever N >= 0, getTimeRange returns a Custom
\* window that ends today and starts exactly N calendar days before today,
\* across month and year ends too; "last 45 days" is a window of 45 days
LastDaysWindowEndsToday ==
    stage = "resolved" =>
        \A asked \in LastDaysTexts :
            periodText = asked.text =>
                /\ ~timeRange.threw
                /\ timeRange.timeframe = "Custom"
                /\ timeRange.end = CivilFromDays(today)
                /\ timeRange.start = CivilFromDays(today - asked.days)
                /\ DaysFromCivil(timeRange.end.y, timeRange.end.m, timeRange.end.d)
                      - DaysFromCivil(timeRange.start.y, timeRange.start.m, timeRange.start.d)
                      = asked.days

----------------------------------------------------------------------------
(* Properties of the Report Assembler *)

ChatHasRead == chatPc \in {"awaitNarrative", "done"}

\* C22: for every successful answer of the cost endpoint the chat handler
\* assembles a context, without failing, and the context holds the empty
\* default of every part the answer lacks
ContextCompleteForEverySuccess ==
    (CostSucceeded /\ ChatHasRead) =>
        /\ context # None
        /\ LET data == costResult[1]
               report == context[1]
           IN /\ data.seasonality = None => report.seasonality = << >>
              /\ data.vnetAnomalies = None =>
                    report.vnetAnomalies
                       = [trafficSpikes |-> << >>, misconfigurations |-> << >>]
              /\ data.multiCloudBenchmarks = None => report.multiCloudBenchmarks = << >>
              /\ data.benchmarkComparisons = None => report.benchmarkComparisons = << >>
              /\ data.budget = None =>
                    /\ report.budget.amount = 0
                    /\ report.budget.currentSpend = 0
                    /\ report.budget.forecastSpend = 0
                    /\ report.alert = NoAlert

\* C23: the misconfigurations and the traffic spikes the cost handler
\* found are in the vnetAnomalies of the report: when there is at least
\* one, vnetAnomalies is not empty and holds it
NetworkFindingsReachReport ==
    (CostSucceeded /\ context # None) =>
        LET misconfigurations == costResult[1].misconfigurations[1]
            trafficSpikes == costResult[1].trafficSpikes[1]
        IN (misconfigurations # << >> \/ trafficSpikes # << >>) =>
              /\ context[1].vnetAnomalies.misconfigurations = misconfigurations
              /\ context[1].vnetAnomalies.trafficSpikes = trafficSpikes

----------------------------------------------------------------------------
(* The chat handler on one answer of the cost endpoint *)

MaxServices == 6

\* entries of the answer's serviceBreakdown: a cost of 0, a credit and
\* three positive costs
ReportEntries ==
    { [service |-> "Storage", cost |-> Num(0)],
      [service |-> "Functions", cost |-> Num(0 - Units(50))],
      [service |-> "Virtual Network", cost |-> Num(Units(100))],
      [service |-> "Azure App Service", cost |-> Num(Units(200))],
      [service |-> "Virtual Machines", cost |-> Num(Units(300))] }

\* the chat handler awaits the cost endpoint, which has answered
InitReport ==
    /\ rows = << >>
    /\ dailyCosts = << >>
    /\ costSpikes = << >>
    /\ percentageThreshold = 0
    /\ absoluteThreshold = 0
    /\ stage = "report"
    /\ costPc = "done"
    /\ local = NoLocals
    /\ failedStep = ""
    /\ \E serviceBreakdown \in SeqsUpTo(ReportEntries, MaxServices) :
          costResult = Some([NoData EXCEPT
                                !.cost = Some(SumCosts(serviceBreakdown)),
                                !.serviceBreakdown = Some(serviceBreakdown),
                                !.costSpikes = Some(<< >>),
                                !.rootCauseAnalysis = Some(<< >>)])
    /\ chatPc = "awaitCost"
    /\ context = None
    /\ narrativeCalls = 0
    /\ chatResult = None
    /\ UnitsIdle

NextReport == ChatAssemble \/ ChatNarrative

SpecReport == InitReport /\ [][NextReport]_vars

\* the entries of the answer with a cost above 0
PositiveEntries ==
    { i \in 1..Len(costResult[1].serviceBreakdown[1]) :
        costResult[1].serviceBreakdown[1][i].cost.v > 0 }

RECURSIVE SumOfEntries(_)
SumOfEntries(entries) ==
    IF entries = {} THEN 0
    ELSE LET i == CHOOSE i \in entries : TRUE
         IN costResult[1].serviceBreakdown[1][i].cost.v + SumOfEntries(entries \ {i})

\* C24: the services of the report are at most 5, each with a cost > 0,
\* in non-increasing order of cost, each an entry of the breakdown; every
\* positive entry that costs more than the last one listed is listed;
\* totalCost is the sum of all the positive entries, listed or not
ServicesAreTopFiveTotalIsAll ==
    context # None =>
        LET serviceBreakdown == costResult[1].serviceBreakdown[1]
            services == context[1].services
            least == services[Len(services)].cost.v
        IN /\ Len(services) <= 5
           /\ Len(services) = IF Cardinality(PositiveEntries) < 5
                              THEN Cardinality(PositiveEntries) ELSE 5
           /\ \A k \in 1..Len(services) :
                 /\ services[k].cost.v > 0
                 /\ k < Len(services) => services[k].cost.v >= services[k + 1].cost.v
                 /\ \E i \in PositiveEntries :
                       /\ serviceBreakdown[i].service = services[k].name
                       /\ serviceBreakdown[i].cost = services[k].cost
           /\ services # << >> =>
                 Cardinality({ i \in PositiveEntries : serviceBreakdown[i].cost.v > least })
                    = Cardinality({ k \in 1..Len(services) : services[k].cost.v > least })
           /\ context[1].totalCost = SumOfEntries(PositiveEntries)

\* six positive entries of 100, 200, 300, 100, 200 and 300: the five
\* listed leave a 100 out, and the total of 1200 counts it
ServicesAreTopFiveTotalIsAllWitness ==
    /\ context # None
    /\ [i \in 1..Len(costResult[1].serviceBreakdown[1]) |->
           costResult[1].serviceBreakdown[1][i].cost.v]
          = <<Units(100), Units(200), Units(300), Units(100), Units(200), Units(300)>>
    /\ [k \in 1..Len(context[1].services) |-> context[1].services[k].cost.v]
          = <<Units(300), Units(300), Units(200), Units(200), Units(100)>>
    /\ context[1].totalCost = Units(1200)

----------------------------------------------------------------------------
(* Properties of the multi-cloud benchmarks *)

\* C25: the benchmark outputs are functions of the fetched data: when
\* fetchMultiCloudBenchmarks has given its figures for a service breakdown,
\* another run over the same breakdown gives the same figures
MultiCloudFiguresRepeat ==
    [][multiCloudBenchmarks # None => multiCloudBenchmarks' = multiCloudBenchmarks]_vars

----------------------------------------------------------------------------
(* The event queries of the cost handler, one a spike, under Promise.all *)

MaxQueryDays == 3

\* one row a day, the last key of nine digits
QueryRows ==
    { <<c, k, "Storage">> :
        c \in {RawNum(Units(100)), RawNum(Units(200)), RawNum(Units(400))},
        k \in {20250106, 20250107, 20250108, 202501071} }

InitQueries ==
    /\ rows \in SeqsUpTo(QueryRows, MaxQueryDays)
    /\ dailyCosts = << >>
    /\ costSpikes = << >>
    /\ percentageThreshold = 0
    /\ absoluteThreshold = 0
    /\ stage = "rows"
    /\ PipelineIdle
    /\ UnitsIdle

\* what the activity log can answer for the day: its events carry the
\* day as their eventTimestamp
EventsOn(date) ==
    { [i \in 1..Len(feed) |->
          [operationName |-> feed[i].operationName,
           resourceName |-> feed[i].resourceName,
           eventTimestamp |-> date]] : feed \in EventFeeds }

\* the map over the spikes: every callback runs to its first await, the
\* request of getDeploymentEvents for the date of its spike, or returns
\* null when the descriptor holds no date
IssueEventQueries ==
    /\ stage = "detected"
    /\ eventQueries' =
          [i \in 1..Len(costSpikes) |->
              [state |-> IF DateMatch(costSpikes[i]) THEN "pending" ELSE "null",
               date |-> costSpikes[i].date,
               result |-> None,
               order |-> 0]]
    /\ stage' = "querying"
    /\ UNCHANGED <<aggVars, costVars, chatVars, seasonality, eventFeed, rootCauses,
                   serviceCosts, benchmarkTable, benchmarkComparisons, periodText, today,
                   timeRange, multiCloudBenchmarks, rootCauseList, uiVars>>

\* the request of one callback is answered, whichever the others are at;
\* the callback returns its object with the date and descriptor it holds
EventQueryResolves ==
    /\ stage = "querying"
    /\ \E i \in 1..Len(eventQueries) :
          /\ eventQueries[i].state = "pending"
          /\ \E events \in EventsOn(eventQueries[i].date) :
                eventQueries' =
                    [eventQueries EXCEPT
                        ![i].state = "resolved",
                        ![i].result = Some([date |-> eventQueries[i].date,
                                            spikeDetails |-> costSpikes[i],
                                            rootCauses |-> analyzeRootCause(events)]),
                        ![i].order =
                            1 + Cardinality({ j \in 1..Len(eventQueries) :
                                                eventQueries[j].state = "resolved" })]
    /\ UNCHANGED <<aggVars, costVars, chatVars, seasonality, eventFeed, rootCauses,
                   serviceCosts, benchmarkTable, benchmarkComparisons, periodText, today,
                   timeRange, multiCloudBenchmarks, rootCauseList, uiVars, stage>>

\* the request of one callback fails: Promise.all rejects and the catch
\* block of the handler answers
EventQueryRejects ==
    /\ stage = "querying"
    /\ \E i \in 1..Len(eventQueries) :
          /\ eventQueries[i].state = "pending"
          /\ eventQueries' = [eventQueries EXCEPT ![i].state = "rejected"]
    /\ stage' = "failed"
    /\ UNCHANGED <<aggVars, costVars, chatVars, seasonality, eventFeed, rootCauses,
                   serviceCosts, benchmarkTable, benchmarkComparisons, periodText, today,
                   timeRange, multiCloudBenchmarks, rootCauseList, uiVars>>

\* PromiseAllResults with the values in the order the promises settled
ResultsAsSettled(queries) ==
    LET settled == { i \in 1..Len(queries) : queries[i].state = "resolved" }
    IN [k \in 1..Cardinality(settled) |->
           queries[CHOOSE i \in settled : queries[i].order = k].result[1]]

\* the values of Promise.all, in the order of the promises, without the
\* nulls that filter(Boolean) removes
PromiseAllResults(queries) ==
    LET kept == SelectSeq(queries, LAMBDA query : query.state = "resolved")
    IN [k \in 1..Len(kept) |-> kept[k].result[1]]

\* every promise has settled: Promise.all resolves
CollectRootCauses ==
    /\ stage = "querying"
    /\ \A i \in 1..Len(eventQueries) : eventQueries[i].state \in {"null", "resolved"}
    /\ rootCauseList' = PromiseAllResults(eventQueries)
    /\ stage' = "collected"
    /\ UNCHANGED <<aggVars, costVars, chatVars, seasonality, eventFeed, rootCauses,
                   serviceCosts, benchmarkTable, benchmarkComparisons, periodText, today,
                   timeRange, multiCloudBenchmarks, eventQueries, uiVars>>

NextQueries ==
    \/ Aggregate
    \/ DetectSpikes
    \/ IssueEventQueries
    \/ EventQueryResolves
    \/ EventQueryRejects
    \/ CollectRootCauses

SpecQueries == InitQueries /\ [][NextQueries]_vars

\* C26: the event queries of the spikes are in flight together, and in
\* whatever order they are answered the root-cause entries are in the order
\* of the spikes, each with the date and descriptor of its spike and with
\* causes of events of that date alone
EntriesInSpikeOrderWithOwnCauses ==
    /\ stage = "querying" =>
          \A i \in 1..Len(costSpikes) :
              DateMatch(costSpikes[i]) => eventQueries[i].state # "null"
    /\ stage = "collected" =>
          /\ Len(rootCauseList) = Cardinality(DatedSpikes(costSpikes))
          /\ \A k \in 1..Len(rootCauseList) :
                /\ \E i \in DatedSpikes(costSpikes) :
                      /\ k = Cardinality({ j \in DatedSpikes(costSpikes) : j <= i })
                      /\ rootCauseList[k].date = costSpikes[i].date
                      /\ rootCauseList[k].spikeDetails = costSpikes[i]
                /\ \A c \in 1..Len(rootCauseList[k].rootCauses) :
                      rootCauseList[k].rootCauses[c].eventTimestamp = rootCauseList[k].date

\* two spikes whose queries were answered in the reverse order, each with
\* a cause: the entries are in the order of the spikes
EntriesInSpikeOrderWithOwnCausesWitness ==
    /\ stage = "collected"
    /\ Len(costSpikes) = 2
    /\ eventQueries[1].order = 2
    /\ eventQueries[2].order = 1
    /\ Len(rootCauseList) = 2
    /\ rootCauseList[1].date = costSpikes[1].date
    /\ rootCauseList[1].rootCauses # << >>
    /\ rootCauseList[2].rootCauses # << >>

----------------------------------------------------------------------------
(* The chat page *)

MaxSends == 3

\* sendMessage with a question typed (an empty input returns at once), up
\* to its request: the user message is pushed, loading is set
SendMessage ==
    /\ stage = "page"
    /\ sent < MaxSends
    /\ sent' = sent + 1
    /\ LET after == Push(messages, chatHistory, UserMessage(sent + 1))
       IN messages' = after.messages /\ chatHistory' = after.chatHistory
    /\ loading' = TRUE
    /\ requests' = requests \cup {sent + 1}
    /\ UNCHANGED <<aggVars, stage, costVars, chatVars, seasonality, eventFeed, rootCauses,
                   serviceCosts, benchmarkTable, benchmarkComparisons, periodText, today,
                   timeRange, multiCloudBenchmarks, fetchVars, localStorage>>

\* the try block of sendMessage after a request is answered: the bot
\* message is pushed, the item with an array of the two messages is pushed
\* to the history, the oldest item is shifted out above the maximum (its
\* array stays the one of messages.value if it was), the history is
\* stored with the messages its arrays hold; the finally block clears
\* loading
ResponseArrives ==
    /\ stage = "page"
    /\ \E n \in requests :
          LET after == Push(messages, chatHistory, BotMessage(n))
              pushed == Append(after.chatHistory,
                               [summary |-> n,
                                messages |-> <<UserMessage(n), BotMessage(n)>>])
              shifted == Len(pushed) > MAX_HISTORY_ITEMS
              kept == IF shifted THEN Tail(pushed) ELSE pushed
          IN /\ messages' =
                   IF ~shifted \/ after.messages.at = 0 THEN after.messages
                   ELSE IF after.messages.at = 1
                   THEN [at |-> 0, own |-> pushed[1].messages]
                   ELSE [after.messages EXCEPT !.at = @ - 1]
             /\ chatHistory' = kept
             /\ localStorage' = Some(kept)
             /\ requests' = requests \ {n}
    /\ loading' = FALSE
    /\ UNCHANGED <<aggVars, stage, costVars, chatVars, seasonality, eventFeed, rootCauses,
                   serviceCosts, benchmarkTable, benchmarkComparisons, periodText, today,
                   timeRange, multiCloudBenchmarks, fetchVars, sent>>

\* the catch block of sendMessage after a request fails, and the finally
\* block
RequestFails ==
    /\ stage = "page"
    /\ \E n \in requests : requests' = requests \ {n}
    /\ LET after == Push(messages, chatHistory, ErrorMessage)
       IN messages' = after.messages /\ chatHistory' = after.chatHistory
    /\ loading' = FALSE
    /\ UNCHANGED <<aggVars, stage, costVars, chatVars, seasonality, eventFeed, rootCauses,
                   serviceCosts, benchmarkTable, benchmarkComparisons, periodText, today,
                   timeRange, multiCloudBenchmarks, fetchVars, localStorage, sent>>

\* loadHistory(index), for the oldest or the newest item: messages.value
\* becomes the array of the item
LoadHistory ==
    /\ stage = "page"
    /\ chatHistory # << >>
    /\ \E index \in {1, Len(chatHistory)} : messages' = [at |-> index, own |-> << >>]
    /\ UNCHANGED <<aggVars, stage, costVars, chatVars, seasonality, eventFeed, rootCauses,
                   serviceCosts, benchmarkTable, benchmarkComparisons, periodText, today,
                   timeRange, multiCloudBenchmarks, fetchVars, chatHistory, localStorage, loading, requests, sent>>

\* clearChatHistory: messages.value keeps the array it refers to
ClearChatHistory ==
    /\ stage = "page"
    /\ messages' = IF messages.at = 0 THEN messages
                   ELSE [at |-> 0, own |-> chatHistory[messages.at].messages]
    /\ chatHistory' = << >>
    /\ localStorage' = None
    /\ UNCHANGED <<aggVars, stage, costVars, chatVars, seasonality, eventFeed, rootCauses,
                   serviceCosts, benchmarkTable, benchmarkComparisons, periodText, today,
                   timeRange, multiCloudBenchmarks, fetchVars, loading, requests, sent>>

\* the page is opened with no history stored, with one an item short of
\* full or with a full one
InitChatPage ==
    /\ rows = << >>
    /\ dailyCosts = << >>
    /\ costSpikes = << >>
    /\ percentageThreshold = 0
    /\ absoluteThreshold = 0
    /\ stage = "page"
    /\ PipelineIdle
    /\ seasonality = << >>
    /\ eventFeed = << >>
    /\ rootCauses = << >>
    /\ serviceCosts = << >>
    /\ benchmarkTable = [source |-> "none", entries |-> << >>]
    /\ benchmarkComparisons = << >>
    /\ periodText = << >>
    /\ today = 0
    /\ timeRange = Named("")
    /\ OthersIdle
    /\ \E saved \in {0, MAX_HISTORY_ITEMS - 1, MAX_HISTORY_ITEMS} : Mounted(saved)

NextChatPage ==
    \/ SendMessage
    \/ ResponseArrives
    \/ RequestFails
    \/ LoadHistory
    \/ ClearChatHistory

SpecChatPage == InitChatPage /\ [][NextChatPage]_vars

----------------------------------------------------------------------------
(* Properties of the chat page *)

Summaries(history) == [j \in 1..Len(history) |-> history[j].summary]

\* the array messages.value refers to
Shown == IF messages.at = 0 THEN messages.own ELSE chatHistory[messages.at].messages

\* C27: the history never holds more than 8 items; an answered send
\* appends one item and, when that makes 9, drops the oldest; a failed
\* send leaves the history and the stored copy as they were and shows the
\* error message of the bot
HistoryBoundedFifoAndFailureLeavesIt ==
    [][ /\ Len(chatHistory') <= MAX_HISTORY_ITEMS
        /\ ResponseArrives =>
              LET n == CHOOSE n \in requests : n \notin requests'
              IN IF Len(chatHistory) < MAX_HISTORY_ITEMS
                 THEN Summaries(chatHistory') = Append(Summaries(chatHistory), n)
                 ELSE Summaries(chatHistory') = Append(Tail(Summaries(chatHistory)), n)
        /\ RequestFails =>
              /\ chatHistory' = chatHistory
              /\ localStorage' = localStorage
              /\ Shown' = Append(Shown, ErrorMessage) ]_vars

\* C28: loading is true whenever a request of sendMessage awaits its
\* response, several at once included
LoadingWhileAnyRequestAwaits == requests # {} => loading

\* C29: every item of the history, and of its stored copy, holds the two
\* messages it was made with, the user message and the reply, whatever is
\* loaded and sent afterwards
ItemsKeepTheirTwoMessages ==
    /\ \A j \in 1..Len(chatHistory) :
          chatHistory[j].messages
             = <<UserMessage(chatHistory[j].summary), BotMessage(chatHistory[j].summary)>>
    /\ localStorage # None =>
          \A j \in 1..Len(localStorage[1]) :
              localStorage[1][j].messages
                 = <<UserMessage(localStorage[1][j].summary),
                     BotMessage(localStorage[1][j].summary)>>

====
